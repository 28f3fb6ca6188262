-------------------------- MODULE TbaAccountProofs --------------------------
(***************************************************************************)
(* tba.account holds exactly what its rows say, and can pay it out, for    *)
(* any number of users, NFTs, TBAs and units, and for nasset vectors of    *)
(* any length.                                                             *)
(*                                                                         *)
(* The ledger beneath is the one of NTokenProofs: the instance Ledger      *)
(* brings its lemmas, and the bridge below says that its operators are     *)
(* those of the instance NT of the model.  Ledger lets its own account set *)
(* any name, so that the lemmas serve nftv.mart as well.                   *)
(***************************************************************************)
EXTENDS TbaAccount, TotalsTheorems

Ledger == INSTANCE NTokenProofs WITH
            AdminNames <- Names, Uris <- {"uri"},
            Uint32Max <- 0, MaxAmount <- Supply, creators <- {}, notaries <- {}

-----------------------------------------------------------------------------
(* The bridge.                                                             *)

(* Three names are at most three.                                          *)
LEMMA ThreeNames == ASSUME NEW a, NEW b, NEW c PROVE Cardinality({a, b, c}) <= 3
<1>1. IsFiniteSet({a}) /\ Cardinality({a}) = 1
  BY FS_Singleton
<1>2. /\ IsFiniteSet({a} \cup {b})
      /\ Cardinality({a} \cup {b}) = 1 \/ Cardinality({a} \cup {b}) = 2
  BY <1>1, FS_AddElement
<1>3. /\ Cardinality({a} \cup {b} \cup {c}) = Cardinality({a} \cup {b})
      \/ Cardinality({a} \cup {b} \cup {c}) = Cardinality({a} \cup {b}) + 1
  BY <1>2, FS_AddElement
<1>4. {a, b, c} = {a} \cup {b} \cup {c}
  OBVIOUS
<1>5. QED
  BY <1>2, <1>3, <1>4

(* What the constants are assumed to be.                                   *)
LEMMA Constants ==
  /\ IsFiniteSet(Accounts) /\ Ledger!IsFiniteSet(Accounts)
  /\ Users \subseteq Accounts /\ Mart \in Accounts /\ Custody \in Accounts
  /\ Mart \notin Users /\ Custody \notin Users /\ Mart # Custody
  /\ Accounts \subseteq Names /\ NoName \in Names \ Accounts
  /\ Ghost \in Names \ Accounts /\ Ghost # NoName
  /\ Nids \subseteq Nat \ {0} /\ IsFiniteSet(Nids) /\ Coin \notin Nids
  /\ Supply \in Nat \ {0} /\ MaxAssetId \in Nat /\ MaxCoins \in Nat
  /\ MaxManifests \in Nat
  /\ Vectors \subseteq Seq([nid : Nids, amount : 1 .. Supply])
  /\ ModeChoices \subseteq Modes /\ StatusChoices \subseteq Statuses
<1> USE TbaAccountAssumption
<1>1. /\ Mart # Custody /\ Mart # NoName /\ Mart # Ghost
      /\ Custody # NoName /\ Custody # Ghost /\ NoName # Ghost
  <2>1. \A a, b, c : Cardinality({a, b, c}) # 4
    <3> TAKE a, b, c
    <3>1. Cardinality({a, b, c}) <= 3
      BY ThreeNames
    <3>2. QED
      BY <3>1
  <2>2. \A a, b, c : {Mart, Custody, NoName, Ghost} # {a, b, c}
    BY <2>1
  <2>3. {Mart, Custody, NoName, Ghost} # {Custody, NoName, Ghost}
    BY <2>2
  <2>4. {Mart, Custody, NoName, Ghost} # {Mart, Custody, Ghost}
    BY <2>2
  <2>5. {Mart, Custody, NoName, Ghost} # {Mart, Custody, NoName}
    BY <2>2
  <2>6. QED
    BY <2>3, <2>4, <2>5
<1>2. IsFiniteSet(Accounts)
  <2>1. IsFiniteSet(Users \cup {Mart})
    BY FS_AddElement
  <2>2. IsFiniteSet((Users \cup {Mart}) \cup {Custody})
    BY <2>1, FS_AddElement
  <2>3. Accounts = (Users \cup {Mart}) \cup {Custody}
    BY DEF Accounts
  <2>4. QED
    BY <2>2, <2>3
<1>3. Ledger!IsFiniteSet(Accounts)
  BY <1>2 DEF IsFiniteSet, Ledger!IsFiniteSet
<1>4. Mart \notin Users /\ Custody \notin Users /\ NoName \notin Users /\ Ghost \notin Users
  OBVIOUS
<1>5. QED
  BY <1>1, <1>2, <1>3, <1>4 DEF Accounts, Names, Coin

(* The assumptions that the lemmas of the ledger rest on.                  *)
LEMMA LedgerConstants ==
  /\ Ledger!IsFiniteSet(Accounts)
  /\ Accounts \subseteq Names
  /\ NoName \in Names \ Accounts
  /\ Names \subseteq Names
  /\ Nids \subseteq Nat
  /\ 0 \in Nat
  /\ Supply \in Nat \ {0}
BY Constants

(* Totals are the same in both instances.                                  *)
LEMMA SameTotal == ASSUME NEW f PROVE Ledger!Total(f) = Total(f)
<1>1. \A S : Ledger!Cardinality(S) = Cardinality(S)
  BY DEF Ledger!Cardinality, Cardinality
<1>2. QED
  BY <1>1 DEF Ledger!Total, Total, Ledger!UnitsOf, UnitsOf

(* The invariant of the ledger gives the types of the model's instance.    *)
LEMMA SameTypes ==
  /\ Ledger!TypeOK <=> NT!TypeOK
  /\ Ledger!Created = NT!Created
BY DEF Ledger!TypeOK, NT!TypeOK, Ledger!Created, NT!Created, Ledger!Stat, NT!Stat

-----------------------------------------------------------------------------
(* The asset rows.                                                         *)

Ids == 1 .. MaxAssetId

Rows == UNION { [D -> Asset] : D \in SUBSET Ids }

(* What the rows record of one kind of asset: RecordedOf, for any rows.    *)
Records(rows, what) ==
  Total([id \in {i \in DOMAIN rows : rows[i].what = what} |-> rows[id].amount])

(* The same as a column of which every id is a row.                        *)
Amount(rows, what, id) ==
  IF id \in DOMAIN rows /\ rows[id].what = what THEN rows[id].amount ELSE 0

AmountColumn(rows, what) == [id \in Ids |-> Amount(rows, what, id)]

(* The fields of a row.                                                    *)
LEMMA RowFields ==
  ASSUME NEW rows \in Rows, NEW id \in DOMAIN rows
  PROVE  /\ rows[id] \in Asset /\ id \in Ids /\ id \in Nat
         /\ rows[id].tba \in Nids /\ rows[id].what \in Nids \cup {Coin}
         /\ rows[id].amount \in 1 .. Supply + MaxCoins
         /\ rows[id].amount \in Nat \ {0}
         /\ rows[id].settlement_mode \in Modes
<1>1. rows[id] \in Asset /\ id \in Ids
  BY DEF Rows
<1>2. Supply + MaxCoins \in Nat
  BY Constants
<1>3. QED
  BY <1>1, <1>2 DEF Asset, Ids

(* The column is one of naturals, and the rows record its total.           *)
LEMMA RecordsColumn ==
  ASSUME NEW rows \in Rows, NEW what
  PROVE  /\ IsFiniteSet(Ids)
         /\ AmountColumn(rows, what) \in [Ids -> Nat]
         /\ Records(rows, what) = Total(AmountColumn(rows, what))
         /\ Records(rows, what) \in Nat
<1> DEFINE T == {i \in DOMAIN rows : rows[i].what = what}
           f == [id \in T |-> rows[id].amount]
<1>1. IsFiniteSet(Ids)
  BY Constants, FS_Interval DEF Ids
<1>2. T \in SUBSET Ids /\ f \in [T -> Nat]
  BY RowFields
<1> DEFINE g == AmountColumn(rows, what)
<1>3. /\ \A id \in T : g[id] = f[id]
      /\ \A id \in Ids \ T : g[id] = 0
  BY <1>2 DEF AmountColumn, Amount
<1>4. g \in [Ids -> Nat]
  <2>1. g = [id \in Ids |-> IF id \in T THEN f[id] ELSE 0]
    BY <1>2 DEF AmountColumn, Amount
  <2>2. QED
    BY <1>2, <2>1
<1>5. Total(g) = Total(f)
  <2> HIDE DEF T, f, g
  <2>1. QED
    BY <1>2, <1>3, <1>4, TotalExtended
<1>6. Records(rows, what) = Total(g)
  BY <1>5 DEF Records
<1>7. QED
  BY <1>1, <1>4, <1>6, TotalType

(* Rows that say the same amounts of the same things record the same.      *)
LEMMA RecordsSame ==
  ASSUME NEW rows \in Rows, NEW changed \in Rows, DOMAIN changed = DOMAIN rows,
         \A id \in DOMAIN rows : /\ changed[id].what = rows[id].what
                                 /\ changed[id].amount = rows[id].amount
  PROVE  \A what : Records(changed, what) = Records(rows, what)
BY DEF Records

(* A row that is erased takes its amount along.                            *)
LEMMA RecordsErased ==
  ASSUME NEW rows \in Rows, NEW id \in DOMAIN rows, NEW left \in Rows,
         left = [i \in DOMAIN rows \ {id} |-> rows[i]]
  PROVE  \A what : Records(left, what) + Amount(rows, what, id) = Records(rows, what)
<1> TAKE what
<1> DEFINE f == AmountColumn(rows, what)
           g == AmountColumn(left, what)
<1>1. /\ IsFiniteSet(Ids) /\ f \in [Ids -> Nat] /\ g \in [Ids -> Nat]
      /\ Records(rows, what) = Total(f) /\ Records(left, what) = Total(g)
      /\ Total(f) \in Nat /\ Total(g) \in Nat
  BY RecordsColumn
<1>2. id \in Ids
  BY RowFields
<1>3. f[id] = Amount(rows, what, id) /\ g[id] = 0
  BY <1>2 DEF AmountColumn, Amount
<1>4. \A i \in Ids \ {id} : g[i] = f[i]
  BY DEF AmountColumn, Amount
<1> HIDE DEF f, g
<1>5. Total(g) + f[id] = Total(f) + g[id]
  BY <1>1, <1>2, <1>4, TotalUpdate
<1>6. QED
  BY <1>1, <1>2, <1>3, <1>5

(* What a sequence of new rows brings of one kind of asset.                *)
Brought(new, what) ==
  Total([i \in {j \in DOMAIN new : new[j].what = what} |-> new[i].amount])

(* The rows with new ones from id base on.                                 *)
Extended(rows, base, new) ==
  [id \in DOMAIN rows \cup (base .. base + Len(new) - 1) |->
     IF id \in base .. base + Len(new) - 1 THEN new[id - base + 1] ELSE rows[id]]

(* New rows after the last one bring what they say.                        *)
LEMMA RecordsAppended ==
  ASSUME NEW rows \in Rows, NEW new \in Seq(Asset), NEW base \in Nat \ {0},
         \A id \in DOMAIN rows : id < base,
         base + Len(new) - 1 <= MaxAssetId,
         NEW more, more = Extended(rows, base, new)
  PROVE  /\ more \in Rows
         /\ \A what : /\ Brought(new, what) \in Nat
                      /\ Records(more, what) = Records(rows, what) + Brought(new, what)
<1> USE DEF Extended
<1> DEFINE added == base .. base + Len(new) - 1
<1>1. /\ Len(new) \in Nat /\ DOMAIN new = 1 .. Len(new)
      /\ \A i \in 1 .. Len(new) : new[i] \in Asset
  OBVIOUS
<1>2. added \subseteq Ids
  BY <1>1, Constants DEF Ids
<1>3. /\ \A id \in added : id - base + 1 \in 1 .. Len(new)
      /\ \A i \in 1 .. Len(new) : base + i - 1 \in added /\ (base + i - 1) - base + 1 = i
      /\ \A id \in added : base + (id - base + 1) - 1 = id
      /\ \A id \in DOMAIN rows : id \notin added
  BY <1>1, RowFields
<1>4. more \in Rows
  <2>1. DOMAIN rows \cup added \in SUBSET Ids
    BY <1>2, RowFields
  <2>2. \A id \in DOMAIN rows \cup added : more[id] \in Asset
    BY <1>1, <1>3, RowFields
  <2>3. more \in [DOMAIN rows \cup added -> Asset]
    BY <2>2
  <2>4. QED
    BY <2>1, <2>3 DEF Rows
<1>5. ASSUME NEW what
      PROVE  /\ Brought(new, what) \in Nat
             /\ Records(more, what) = Records(rows, what) + Brought(new, what)
  <2> DEFINE J == {j \in DOMAIN new : new[j].what = what}
             T == {id \in added : new[id - base + 1].what = what}
             b == [i \in J |-> new[i].amount]
             h == [id \in T |-> id - base + 1]
             t == [id \in T |-> b[h[id]]]
             f == AmountColumn(rows, what)
             g == [id \in Ids |-> IF id \in T THEN t[id] ELSE 0]
  <2>1. IsFiniteSet(J) /\ b \in [J -> Nat]
    <3>1. IsFiniteSet(1 .. Len(new))
      BY <1>1, FS_Interval
    <3>2. IsFiniteSet(J)
      BY <1>1, <3>1, FS_Subset
    <3>3. \A a \in Asset : a.amount \in Nat
      BY Constants DEF Asset
    <3>4. QED
      BY <1>1, <3>2, <3>3
  <2>2. h \in Bijection(T, J)
    <3>1. h \in [T -> J]
      BY <1>1, <1>3
    <3>2. \A x, y \in T : h[x] = h[y] => x = y
      BY <1>3
    <3>3. \A j \in J : \E x \in T : h[x] = j
      <4> TAKE j \in J
      <4>1. j \in 1 .. Len(new) /\ new[j].what = what
        BY <1>1
      <4>2. base + j - 1 \in added /\ (base + j - 1) - base + 1 = j
        BY <1>3, <4>1
      <4>3. base + j - 1 \in T
        BY <4>1, <4>2
      <4>4. h[base + j - 1] = j
        BY <4>2, <4>3
      <4>5. QED
        BY <4>3, <4>4
    <3> HIDE DEF h, T, J
    <3>4. QED
      BY <3>1, <3>2, <3>3 DEF Bijection, Injection, IsInjective, Surjection
  <2>3. Total(t) = Brought(new, what) /\ Brought(new, what) \in Nat
    <3>1. Brought(new, what) = Total(b)
      BY DEF Brought
    <3> HIDE DEF J, T, b, h
    <3>2. Total(t) = Total(b)
      BY <2>1, <2>2, TotalRenamed
    <3>3. Total(b) \in Nat
      BY <2>1, TotalType
    <3>4. QED
      BY <3>1, <3>2, <3>3
  <2>4. T \in SUBSET Ids /\ t \in [T -> Nat]
    <3>1. T \in SUBSET Ids
      BY <1>2
    <3>2. h \in [T -> J]
      BY <2>2 DEF Bijection, Injection
    <3> HIDE DEF J, T, b, h
    <3>3. QED
      BY <2>1, <3>1, <3>2
  <2>5. Total(g) = Brought(new, what)
    <3> HIDE DEF T, t
    <3>1. g \in [Ids -> Nat]
      BY <2>4
    <3>2. \A id \in T : g[id] = t[id]
      BY <2>4
    <3>3. \A id \in Ids \ T : g[id] = 0
      BY <2>4
    <3> HIDE DEF g, J, b, h, f, added
    <3>4. Total(g) = Total(t)
      BY ONLY <2>4, <3>1, <3>2, <3>3, TotalExtended
    <3>5. QED
      BY <2>3, <3>4
  <2>6. g \in [Ids -> Nat]
    <3> HIDE DEF T, t
    <3>1. QED
      BY <2>4
  <2>7. AmountColumn(more, what) = [id \in Ids |-> f[id] + g[id]]
    <3>1. ASSUME NEW id \in Ids
          PROVE  Amount(more, what, id) = Amount(rows, what, id) + g[id]
      <4>1. DOMAIN more = DOMAIN rows \cup added
        OBVIOUS
      <4>2. Amount(rows, what, id) \in Nat
        BY RecordsColumn DEF AmountColumn
      <4>3. CASE id \in added
        <5>1. Amount(rows, what, id) = 0 /\ more[id] = new[id - base + 1]
          BY <1>3, <4>3 DEF Amount
        <5>2. g[id] = IF new[id - base + 1].what = what THEN new[id - base + 1].amount ELSE 0
          BY <1>1, <1>3, <4>3
        <5>3. g[id] \in Nat
          BY <2>6
        <5> HIDE DEF g
        <5>4. QED
          BY <4>1, <4>3, <5>1, <5>2, <5>3 DEF Amount
      <4>4. CASE id \notin added
        <5>1. g[id] = 0
          BY <4>4
        <5>2. Amount(more, what, id) = Amount(rows, what, id)
          BY <4>1, <4>4 DEF Amount
        <5>3. QED
          BY <4>2, <5>1, <5>2
      <4>5. QED
        BY <4>3, <4>4
    <3> HIDE DEF g
    <3>2. QED
      BY <3>1 DEF AmountColumn
  <2> HIDE DEF f, g
  <2>8. Total([id \in Ids |-> f[id] + g[id]]) = Total(f) + Total(g)
    <3>1. IsFiniteSet(Ids) /\ f \in [Ids -> Nat]
      BY RecordsColumn DEF f
    <3>2. QED
      BY <2>6, <3>1, TotalSum
  <2>9. QED
    BY <1>4, <2>3, <2>5, <2>7, <2>8, RecordsColumn DEF f
<1>6. QED
  BY <1>4, <1>5

-----------------------------------------------------------------------------
(* The invariant.                                                          *)

TbasAreTyped ==
  /\ DOMAIN tbas \subseteq Nids
  /\ tbas \in [DOMAIN tbas -> Tba]

(* What the deployment does to gnos.ntoken lasts: every token is created,  *)
(* by a person, and the whitelist is empty or that of the two custodians.  *)
DeploymentLasts ==
  /\ NT!Created = Nids
  /\ \A nid \in Nids : tokenstats[nid].issuer \in Users
  /\ whitelist = {} \/ whitelist = {Mart, Custody}

TbaInv ==
  /\ Ledger!LedgerInv
  /\ DeploymentLasts
  /\ TbasAreTyped
  /\ assets \in Rows
  /\ coins \in 0 .. MaxCoins
  /\ manifests \in 0 .. MaxManifests
  /\ CustodyIsExact

(* What the ledger knows, in the terms of the model.                       *)
LEMMA LedgerFacts ==
  ASSUME TbaInv
  PROVE  /\ Ledger!TypeOK /\ NT!TypeOK
         /\ tokenstats \in [Nids -> NT!Stat]
         /\ accounts \in [Accounts -> [Nids -> 0 .. Supply]]
         /\ \A a \in Accounts, nid \in Nids : accounts[a][nid] \in Nat
         /\ \A a, b \in Accounts, nid \in Nids :
              a # b => accounts[a][nid] + accounts[b][nid] <= Supply
<1>1. Ledger!TypeOK /\ Ledger!SupplyConserved /\ NT!TypeOK
  BY SameTypes DEF TbaInv, Ledger!LedgerInv
<1>2. /\ NT!Created = Nids
      /\ tokenstats \in [Nids -> NT!Stat]
      /\ accounts \in [Accounts -> [Nids -> 0 .. Supply]]
  BY <1>1 DEF NT!TypeOK, TbaInv, DeploymentLasts
<1>3. \A a \in Accounts, nid \in Nids : accounts[a][nid] \in Nat
  BY <1>2, Constants
<1>4. \A a, b \in Accounts, nid \in Nids :
        a # b => accounts[a][nid] + accounts[b][nid] <= Supply
  <2> SUFFICES ASSUME NEW a \in Accounts, NEW b \in Accounts, NEW nid \in Nids, a # b
               PROVE  accounts[a][nid] + accounts[b][nid] <= Supply
    OBVIOUS
  <2> DEFINE column == [c \in Accounts |-> accounts[c][nid]]
  <2>1. column \in [Accounts -> Nat] /\ column[a] = accounts[a][nid]
        /\ column[b] = accounts[b][nid]
    BY <1>3
  <2>2. Total(column) <= Supply /\ Total(column) \in Nat
    <3>1. /\ Ledger!Total(Ledger!HoldingsOf(nid)) = tokenstats[nid].supply
          /\ tokenstats[nid].supply <= tokenstats[nid].max_supply
      BY <1>1, <1>2, SameTypes DEF Ledger!SupplyConserved
    <3>2. Ledger!Total(Ledger!HoldingsOf(nid)) = Total(column)
      BY SameTotal DEF Ledger!HoldingsOf
    <3>3. tokenstats[nid].supply \in Nat /\ tokenstats[nid].max_supply \in 1 .. Supply
      BY <1>2, Constants DEF NT!Stat
    <3>4. QED
      BY <3>1, <3>2, <3>3, Constants
  <2> HIDE DEF column
  <2>3. column[a] + column[b] <= Total(column)
    BY <2>1, Constants, TotalBoundsTwoRows
  <2>4. QED
    BY <1>3, <2>1, <2>2, <2>3, Constants
<1>5. QED
  BY <1>1, <1>2, <1>3, <1>4

(* The invariant is of the model's types.                                  *)
LEMMA TbaInvTypes == TbaInv => TypeOK
<1> SUFFICES ASSUME TbaInv PROVE TypeOK
  OBVIOUS
<1>1. DOMAIN assets \subseteq 1 .. MaxAssetId /\ assets \in [DOMAIN assets -> Asset]
  BY DEF TbaInv, Rows, Ids
<1>2. QED
  BY <1>1, LedgerFacts DEF TbaInv, TbasAreTyped, TypeOK

-----------------------------------------------------------------------------
(* Transfers.                                                              *)

(* What a transfer does to the balances.                                   *)
MovedUnits(from, to, units) ==
  /\ from # to
  /\ \A nid \in Nids :
       /\ NT!Quantity(units, nid) \in Nat
       /\ accounts'[from][nid] = accounts[from][nid] - NT!Quantity(units, nid)
       /\ accounts'[to][nid] = accounts[to][nid] + NT!Quantity(units, nid)
       /\ \A a \in Accounts \ {from, to} : accounts'[a][nid] = accounts[a][nid]

(* A transfer keeps the ledger and what the deployment set.                *)
LEMMA Transfers ==
  ASSUME TbaInv, NEW from \in Accounts, NEW to \in Accounts,
         NEW units \in Ledger!AssetVectors, NT!Transfer(from, to, units)
  PROVE  /\ Ledger!LedgerInv' /\ DeploymentLasts' /\ UNCHANGED <<tokenstats, whitelist>>
         /\ MovedUnits(from, to, units)
<1>1. Ledger!Transfer(from, to, units)
  BY DEF Ledger!Transfer, NT!Transfer, Ledger!CanTransfer, NT!CanTransfer,
         Ledger!Moved, NT!Moved, Ledger!Quantity, NT!Quantity, Ledger!roles, NT!roles,
         Ledger!CanSub, NT!CanSub, Ledger!CanAdd, NT!CanAdd, Ledger!Created, NT!Created,
         Ledger!WhitelistAllows, NT!WhitelistAllows
<1>2. UNCHANGED <<tokenstats, whitelist>>
  BY DEF NT!Transfer, NT!roles
<1>3. Ledger!LedgerInv'
  BY <1>1, LedgerConstants, Ledger!TransferInv DEF TbaInv
<1>4. DeploymentLasts'
  BY <1>2 DEF TbaInv, DeploymentLasts, NT!Created
<1>5. \A nid : Ledger!Quantity(units, nid) = NT!Quantity(units, nid)
  BY DEF Ledger!Quantity, NT!Quantity
<1>6. /\ from # to
      /\ \A n \in Nids :
           /\ Ledger!Quantity(units, n) \in Nat
           /\ accounts'[from][n] = accounts[from][n] - Ledger!Quantity(units, n)
           /\ accounts'[to][n] = accounts[to][n] + Ledger!Quantity(units, n)
           /\ \A a \in Accounts \ {from, to} : accounts'[a][n] = accounts[a][n]
  BY <1>1, LedgerConstants, LedgerFacts, Ledger!TransferEffect
<1>7. QED
  BY <1>2, <1>3, <1>4, <1>5, <1>6 DEF MovedUnits

(* Some units of one NFT are a vector, and move as such.                   *)
LEMMA UnitsOfOne ==
  ASSUME NEW nid \in Nids, NEW q \in 1 .. Supply, NEW units, units = [n \in {nid} |-> q]
  PROVE  /\ units \in Ledger!AssetVectors
         /\ NT!Quantity(units, nid) = q
         /\ \A n \in Nids \ {nid} : NT!Quantity(units, n) = 0
<1>1. units \in [{nid} -> 1 .. Supply] /\ {nid} \in SUBSET Nids
  OBVIOUS
<1>2. QED
  BY <1>1 DEF Ledger!AssetVectors, NT!Quantity

(* What a nasset vector says of one NFT.                                   *)
AmountsOf(v, nid) == [i \in {j \in DOMAIN v : v[j].nid = nid} |-> v[i].amount]

(* A vector that can be transferred is one of the ledger, and says of each *)
(* NFT what its elements do.                                               *)
LEMMA VectorUnits ==
  ASSUME NEW v \in Vectors
  PROVE  /\ DOMAIN v = 1 .. Len(v) /\ Len(v) \in Nat
         /\ \A i \in DOMAIN v : v[i].nid \in Nids /\ v[i].amount \in 1 .. Supply
         /\ \A nid : Total(AmountsOf(v, nid)) \in Nat
         /\ \A nid \in Nids : NT!Quantity(Amounts(v), nid) = Total(AmountsOf(v, nid))
         /\ DOMAIN Amounts(v) \subseteq Nids
         /\ \A nid \in DOMAIN Amounts(v) : Amounts(v)[nid] \in Nat
<1>1. v \in Seq([nid : Nids, amount : 1 .. Supply])
  BY Constants
<1>2. DOMAIN v = 1 .. Len(v) /\ Len(v) \in Nat
  BY <1>1
<1>3. \A i \in DOMAIN v : v[i].nid \in Nids /\ v[i].amount \in 1 .. Supply
  <2> DEFINE E == [nid : Nids, amount : 1 .. Supply]
  <2>1. v \in [1 .. Len(v) -> E]
    <3>1. v \in Seq(E)
      BY <1>1
    <3> HIDE DEF E
    <3>2. QED
      BY <3>1
  <2>2. QED
    BY <1>2, <2>1
<1>4. \A nid : Total(AmountsOf(v, nid)) \in Nat
  <2> TAKE nid
  <2> DEFINE J == {j \in DOMAIN v : v[j].nid = nid}
  <2>1. IsFiniteSet(J)
    <3>1. IsFiniteSet(1 .. Len(v))
      BY <1>2, FS_Interval
    <3>2. J \in SUBSET (1 .. Len(v))
      BY <1>2
    <3> HIDE DEF J
    <3>3. QED
      BY <3>1, <3>2, FS_Subset
  <2>2. AmountsOf(v, nid) \in [J -> Nat]
    <3>1. \A i \in J : v[i].amount \in Nat
      BY <1>3, Constants
    <3>2. QED
      BY <3>1 DEF AmountsOf
  <2> HIDE DEF J
  <2>3. QED
    BY <2>1, <2>2, TotalType
<1>5. /\ DOMAIN Amounts(v) = {v[i].nid : i \in DOMAIN v}
      /\ \A nid \in DOMAIN Amounts(v) : Amounts(v)[nid] = Total(AmountsOf(v, nid))
  BY DEF Amounts, AmountsOf
<1>6. ASSUME NEW nid \in Nids
      PROVE  NT!Quantity(Amounts(v), nid) = Total(AmountsOf(v, nid))
  <2>1. CASE nid \in DOMAIN Amounts(v)
    BY <1>5, <2>1 DEF NT!Quantity
  <2>2. CASE nid \notin DOMAIN Amounts(v)
    <3>1. \A i \in DOMAIN v : v[i].nid # nid
      BY <1>5, <2>2
    <3>2. AmountsOf(v, nid) \in [{} -> Nat]
      <4>1. {j \in DOMAIN v : v[j].nid = nid} = {}
        BY <3>1
      <4>2. QED
        BY <4>1 DEF AmountsOf
    <3>3. Total(AmountsOf(v, nid)) = 0
      BY <3>2, TotalZero
    <3>4. QED
      BY <2>2, <3>3 DEF NT!Quantity
  <2>3. QED
    BY <2>1, <2>2
<1>7. QED
  BY <1>2, <1>3, <1>4, <1>5, <1>6

(* The same, once the balance of the sender bounds it.                     *)
LEMMA VectorIsUnits ==
  ASSUME TbaInv, NEW v \in Vectors, NEW from \in Accounts, NEW to,
         NT!CanTransfer(from, to, Amounts(v))
  PROVE  Amounts(v) \in Ledger!AssetVectors
<1>1. /\ DOMAIN Amounts(v) \subseteq Nids
      /\ \A nid \in DOMAIN Amounts(v) : Amounts(v)[nid] \in Nat
  BY VectorUnits
<1>2. \A nid \in DOMAIN Amounts(v) :
        Amounts(v)[nid] > 0 /\ Amounts(v)[nid] <= accounts[from][nid]
  BY DEF NT!CanTransfer, NT!CanSub
<1>3. \A nid \in Nids : accounts[from][nid] \in 0 .. Supply
  BY LedgerFacts
<1>4. \A nid \in DOMAIN Amounts(v) : Amounts(v)[nid] \in 1 .. Supply
  <2> TAKE nid \in DOMAIN Amounts(v)
  <2>1. /\ Amounts(v)[nid] \in Nat /\ Amounts(v)[nid] > 0
        /\ Amounts(v)[nid] <= accounts[from][nid] /\ accounts[from][nid] \in 0 .. Supply
    BY <1>1, <1>2, <1>3
  <2>2. QED
    BY <2>1, Constants
<1>5. Amounts(v) \in [DOMAIN Amounts(v) -> 1 .. Supply]
  <2>1. Amounts(v) = [nid \in DOMAIN Amounts(v) |-> Amounts(v)[nid]]
    BY DEF Amounts
  <2>2. QED
    BY <1>4, <2>1
<1>6. QED
  BY <1>1, <1>5 DEF Ledger!AssetVectors

(* People's transfers to each other and to the market do not change the    *)
(* balances of tba.account.                                                *)
LEMMA TransferNftStep ==
  ASSUME TbaInv, NEW from \in Accounts \ {Custody}, NEW to \in Accounts \ {Custody},
         NEW v \in Vectors, TransferNft(from, to, v)
  PROVE  /\ Ledger!LedgerInv' /\ DeploymentLasts'
         /\ \A nid \in Nids : accounts'[Custody][nid] = accounts[Custody][nid]
<1>1. NT!Transfer(from, to, Amounts(v)) /\ NT!CanTransfer(from, to, Amounts(v))
  BY DEF TransferNft, NT!Transfer
<1>2. Amounts(v) \in Ledger!AssetVectors
  BY <1>1, VectorIsUnits
<1>3. /\ Ledger!LedgerInv' /\ DeploymentLasts' /\ MovedUnits(from, to, Amounts(v))
  BY <1>1, <1>2, Transfers
<1>4. QED
  BY <1>3, Constants DEF MovedUnits

(* What is issued and retired belongs to people.                           *)
LEMMA IssueNftStep ==
  ASSUME TbaInv, NEW nid \in Nids, NEW q \in 1 .. Supply,
         NT!Issue(nid, q) \/ NT!Retire(nid, q)
  PROVE  /\ Ledger!LedgerInv' /\ DeploymentLasts'
         /\ \A a \in {Mart, Custody}, n \in Nids : accounts'[a][n] = accounts[a][n]
<1> DEFINE issuer == tokenstats[nid].issuer
<1>1. Ledger!Issue(nid, q) \/ Ledger!Retire(nid, q)
  BY DEF Ledger!Issue, NT!Issue, Ledger!Retire, NT!Retire, Ledger!CanAdd, NT!CanAdd,
         Ledger!CanSub, NT!CanSub, Ledger!roles, NT!roles, NT!Created, Ledger!Created
<1>2. issuer \in Users /\ issuer \in Accounts /\ issuer # Mart /\ issuer # Custody
  BY Constants DEF TbaInv, DeploymentLasts
<1>3. Ledger!LedgerInv'
  BY <1>1, LedgerConstants, Ledger!IssueInv, Ledger!RetireInv DEF TbaInv
<1>4. /\ tokenstats \in [Nids -> NT!Stat]
      /\ accounts \in [Accounts -> [Nids -> 0 .. Supply]]
  BY LedgerFacts
<1>5. PICK supply, b :
        /\ tokenstats' = [tokenstats EXCEPT ![nid].supply = supply]
        /\ accounts' = [accounts EXCEPT ![issuer][nid] = b]
  BY DEF NT!Issue, NT!Retire
<1>6. UNCHANGED whitelist
  BY DEF NT!Issue, NT!Retire, NT!roles
<1>7. /\ DOMAIN tokenstats' = DOMAIN tokenstats
      /\ \A n \in Nids : tokenstats'[n].issuer = tokenstats[n].issuer
      /\ accounts'[Mart] = accounts[Mart] /\ accounts'[Custody] = accounts[Custody]
  BY <1>2, <1>4, <1>5, Constants DEF NT!Stat
<1>8. QED
  BY <1>3, <1>6, <1>7 DEF TbaInv, DeploymentLasts, NT!Created

-----------------------------------------------------------------------------
(* The rows of tba.account.                                                *)

(* A set of naturals below some bound that is not empty has a largest one. *)
LEMMA LargestId ==
  ASSUME NEW D \in SUBSET Ids, D # {}
  PROVE  \E i \in D : \A j \in D : j <= i
<1> DEFINE bounds == {b \in Nat : \A j \in D : j <= b}
<1>1. D \subseteq Nat /\ MaxAssetId \in bounds
  BY Constants DEF Ids
<1>2. PICK least \in bounds : \A b \in bounds : ~ (b < least)
  <2>1. PICK x \in bounds : \A y \in bounds : ~ (<<y, x>> \in OpToRel(<, Nat))
    BY <1>1, WFMin, NatLessThanWellFounded
  <2>2. QED
    BY <2>1 DEF OpToRel
<1>3. SUFFICES ASSUME least \notin D PROVE FALSE
  BY <1>2
<1>4. \A j \in D : j <= least - 1 /\ j > 0
  BY <1>1, <1>2, <1>3 DEF Ids
<1>5. least - 1 \in bounds
  <2>1. PICK j : j \in D
    OBVIOUS
  <2>2. j \in Nat /\ least \in Nat /\ j <= least - 1 /\ j > 0
    BY <1>1, <1>2, <1>4, <2>1
  <2>3. least - 1 \in Nat
    BY <2>2
  <2>4. QED
    BY <1>4, <2>3
<1>6. QED
  BY <1>2, <1>5

(* The next id is beyond all the ids in use.                               *)
LEMMA NextIdIsNew ==
  ASSUME assets \in Rows
  PROVE  NextAssetId \in Nat \ {0} /\ \A id \in DOMAIN assets : id < NextAssetId
<1>1. PICK D \in SUBSET Ids : assets \in [D -> Asset]
  BY DEF Rows
<1>2. CASE D = {}
  <2>1. assets = << >>
    BY <1>1, <1>2
  <2>2. QED
    BY <2>1 DEF NextAssetId
<1>3. CASE D # {}
  <2>1. assets # << >>
    BY <1>1, <1>3
  <2> DEFINE last == CHOOSE i \in DOMAIN assets : \A j \in DOMAIN assets : j <= i
  <2>2. \E i \in DOMAIN assets : \A j \in DOMAIN assets : j <= i
    BY <1>1, <1>3, LargestId
  <2>3. last \in DOMAIN assets /\ \A j \in DOMAIN assets : j <= last
    BY <2>2
  <2>4. NextAssetId = 1 + last
    BY <2>1 DEF NextAssetId
  <2>5. DOMAIN assets \subseteq Nat
    BY <1>1 DEF Ids
  <2> HIDE DEF last
  <2>6. QED
    BY <2>3, <2>4, <2>5
<1>4. QED
  BY <1>2, <1>3

(* Every row survives as it was.                                           *)
RowsStay ==
  \A id \in DOMAIN assets : id \in DOMAIN assets' /\ assets'[id] = assets[id]

(* New rows come beside the others, and bring what they say.               *)
LEMMA RowsRecorded ==
  ASSUME TbaInv, NEW new \in Seq(Asset), RoomFor(Len(new)), assets' = Recorded(new)
  PROVE  /\ assets' \in Rows /\ RowsStay
         /\ \A what : /\ Brought(new, what) \in Nat
                      /\ Records(assets', what) = Records(assets, what) + Brought(new, what)
<1> DEFINE base == NextAssetId
<1>1. assets \in Rows /\ base \in Nat \ {0} /\ \A id \in DOMAIN assets : id < base
  BY NextIdIsNew DEF TbaInv
<1>2. base + Len(new) - 1 <= MaxAssetId
  BY DEF RoomFor
<1>3. assets' = Extended(assets, base, new)
  BY DEF Recorded, Extended
<1>4. RowsStay
  <2>1. DOMAIN assets \subseteq Nat
    BY <1>1, RowFields
  <2> HIDE DEF base
  <2>2. QED
    BY <1>1, <1>3, <2>1 DEF RowsStay, Extended
<1> HIDE DEF base
<1>5. QED
  BY <1>1, <1>2, <1>3, <1>4, RecordsAppended

(* Custody stays exact where what the rows record changes as the balances  *)
(* of tba.account do.                                                      *)
LEMMA CustodyFollows ==
  ASSUME Records(assets', Coin) <= coins',
         \A nid \in Nids : Records(assets', nid) = accounts'[Custody][nid]
  PROVE  CustodyIsExact'
BY DEF CustodyIsExact, RecordedOf, Records

(* What custody holds in the first place.                                  *)
LEMMA CustodyHolds ==
  ASSUME TbaInv
  PROVE  /\ Records(assets, Coin) <= coins
         /\ \A nid \in Nids : Records(assets, nid) = accounts[Custody][nid]
BY DEF TbaInv, CustodyIsExact, RecordedOf, Records

(* Ordinary tokens stay, and more may come.                                *)
CoinsGrow == coins' = coins \/ (coins' \in 0 .. MaxCoins /\ coins <= coins')

(* Changes of other fields of the rows do not concern custody, and neither *)
(* do tokens that come unnoticed.                                          *)
LEMMA CustodyKept ==
  ASSUME TbaInv, assets' \in Rows, DOMAIN assets' = DOMAIN assets,
         \A id \in DOMAIN assets : /\ assets'[id].what = assets[id].what
                                   /\ assets'[id].amount = assets[id].amount,
         CoinsGrow,
         \A nid \in Nids : accounts'[Custody][nid] = accounts[Custody][nid]
  PROVE  CustodyIsExact'
<1>1. \A what : Records(assets', what) = Records(assets, what)
  <2>1. assets \in Rows
    BY DEF TbaInv
  <2>2. QED
    BY <2>1, RecordsSame
<1>2. Records(assets, Coin) \in Nat /\ coins \in Int
  BY RecordsColumn, Constants DEF TbaInv
<1>3. Records(assets', Coin) <= coins'
  BY <1>1, <1>2, CustodyHolds DEF CoinsGrow
<1>4. QED
  BY <1>1, <1>3, CustodyHolds, CustodyFollows

(* Every row stays with its TBA, thing and amount.                         *)
RowsKept ==
  /\ DOMAIN assets' = DOMAIN assets
  /\ \A id \in DOMAIN assets : /\ assets'[id].tba = assets[id].tba
                               /\ assets'[id].what = assets[id].what
                               /\ assets'[id].amount = assets[id].amount

(* Setting other fields of some rows keeps them all.                       *)
LEMMA RowsRetagged ==
  ASSUME TbaInv, NEW mode \in Modes, NEW state \in BOOLEAN, NEW ids,
         \/ \E id \in DOMAIN assets : assets' = [assets EXCEPT ![id].settlement_mode = mode]
         \/ assets' = Frozen(ids, state)
         \/ assets' = assets
  PROVE  assets' \in Rows /\ RowsKept
<1>1. PICK D \in SUBSET Ids : assets \in [D -> Asset]
  BY DEF TbaInv, Rows
<1>2. CASE assets' = assets
  BY <1>2 DEF TbaInv, RowsKept
<1>3. CASE \E id \in DOMAIN assets : assets' = [assets EXCEPT ![id].settlement_mode = mode]
  <2>1. PICK id \in D : assets' = [assets EXCEPT ![id].settlement_mode = mode]
    BY <1>1, <1>3
  <2> DEFINE row == [assets[id] EXCEPT !.settlement_mode = mode]
  <2>2. /\ row \in Asset
        /\ row.tba = assets[id].tba /\ row.what = assets[id].what
        /\ row.amount = assets[id].amount
    BY <1>1 DEF Asset
  <2>3. assets' = [assets EXCEPT ![id] = row]
    BY <2>1
  <2> HIDE DEF row
  <2>4. assets' \in [D -> Asset]
    BY <1>1, <2>2, <2>3
  <2>5. QED
    BY <1>1, <2>2, <2>3, <2>4 DEF Rows, RowsKept
<1>4. CASE assets' = Frozen(ids, state)
  <2> DEFINE row(id) == [assets[id] EXCEPT !.frozen = state]
  <2>1. \A id \in D : /\ row(id) \in Asset
                      /\ row(id).tba = assets[id].tba /\ row(id).what = assets[id].what
                      /\ row(id).amount = assets[id].amount
    BY <1>1 DEF Asset
  <2>2. assets' = [id \in D |-> IF id \in ids THEN row(id) ELSE assets[id]]
    BY <1>1, <1>4 DEF Frozen
  <2> HIDE DEF row
  <2>3. assets' \in [D -> Asset]
    BY <1>1, <2>1, <2>2
  <2>4. QED
    BY <1>1, <2>1, <2>2, <2>3 DEF Rows, RowsKept
<1>5. QED
  BY <1>2, <1>3, <1>4

-----------------------------------------------------------------------------
(* The steps.                                                              *)

(* Steps that leave gnos.ntoken alone.                                     *)
LEMMA LedgerUnchanged ==
  ASSUME TbaInv, UNCHANGED ntvars
  PROVE  /\ Ledger!LedgerInv' /\ DeploymentLasts'
         /\ \A nid \in Nids : accounts'[Custody][nid] = accounts[Custody][nid]
<1>1. UNCHANGED <<tokenstats, accounts, whitelist>>
  BY DEF ntvars
<1>2. UNCHANGED Ledger!vars
  BY <1>1 DEF Ledger!vars
<1>3. Ledger!LedgerInv'
  BY <1>2, LedgerConstants, Ledger!SettingsInv DEF TbaInv
<1>4. QED
  BY <1>1, <1>3 DEF TbaInv, DeploymentLasts, NT!Created

(* Steps that keep the rows and what custody holds.                        *)
LEMMA KeepingStep ==
  ASSUME TbaInv, Ledger!LedgerInv', DeploymentLasts', TbasAreTyped',
         \A nid \in Nids : accounts'[Custody][nid] = accounts[Custody][nid],
         assets' \in Rows, RowsKept, CoinsGrow, manifests' \in 0 .. MaxManifests
  PROVE  TbaInv' /\ LeavesToHolder
<1>1. CustodyIsExact'
  BY CustodyKept DEF RowsKept
<1>2. LeavesToHolder
  BY DEF RowsKept, LeavesToHolder
<1>3. coins' \in 0 .. MaxCoins
  BY DEF CoinsGrow, TbaInv
<1>4. QED
  BY <1>1, <1>2, <1>3 DEF TbaInv

(* The other steps of tba.reg and tba.account: a new TBA, its status, a    *)
(* manifest, tokens that come unnoticed, a stutter.                        *)
LEMMA RegistryStep ==
  ASSUME TbaInv,
         \/ \E a \in Users, nid \in Nids, q \in 1 .. Supply : Createtba(a, nid, q)
         \/ \E tba \in Nids, status \in StatusChoices : Setstatus(tba, status)
         \/ \E tba \in Nids : Genmanifest(tba)
         \/ \E q \in 1 .. MaxCoins : SendCoins(q)
         \/ UNCHANGED vars
  PROVE  TbaInv' /\ LeavesToHolder
<1>1. UNCHANGED ntvars /\ UNCHANGED assets
  BY DEF Createtba, Setstatus, Genmanifest, SendCoins, vars, ntvars
<1>2. DOMAIN tbas \subseteq Nids /\ tbas \in [DOMAIN tbas -> Tba]
  BY DEF TbaInv, TbasAreTyped
<1>3. TbasAreTyped'
  <2>1. CASE UNCHANGED tbas
    BY <1>2, <2>1 DEF TbasAreTyped
  <2>2. CASE \E a \in Users, nid \in Nids, q \in 1 .. Supply : Createtba(a, nid, q)
    <3>1. PICK a \in Users, nid \in Nids, q \in 1 .. Supply : Createtba(a, nid, q)
      BY <2>2
    <3> DEFINE tba == [owner |-> a, root_amount |-> q, status |-> "active"]
    <3>2. tba \in Tba
      BY DEF Tba, Statuses
    <3>3. tbas' = [n \in DOMAIN tbas \cup {nid} |-> IF n = nid THEN tba ELSE tbas[n]]
      BY <3>1 DEF Createtba
    <3> HIDE DEF tba
    <3>4. QED
      BY <1>2, <3>2, <3>3 DEF TbasAreTyped
  <2>3. CASE \E tba \in Nids, status \in StatusChoices : Setstatus(tba, status)
    <3>1. PICK tba \in Nids, status \in StatusChoices : Setstatus(tba, status)
      BY <2>3
    <3> DEFINE row == [tbas[tba] EXCEPT !.status = status]
    <3>2. tba \in DOMAIN tbas /\ tbas' = [tbas EXCEPT ![tba] = row]
      BY <3>1 DEF Setstatus
    <3>3. row \in Tba
      BY <1>2, <3>2, Constants DEF Tba
    <3> HIDE DEF row
    <3>4. QED
      BY <1>2, <3>2, <3>3 DEF TbasAreTyped
  <2>4. QED
    BY <2>1, <2>2, <2>3 DEF Genmanifest, SendCoins, vars
<1>4. manifests' \in 0 .. MaxManifests
  <2>1. \/ manifests' = manifests
        \/ manifests < MaxManifests /\ manifests' = manifests + 1
    BY DEF Createtba, Setstatus, Genmanifest, SendCoins, vars
  <2>2. manifests \in 0 .. MaxManifests
    BY DEF TbaInv
  <2>3. QED
    BY <2>1, <2>2, Constants
<1>5. assets' \in Rows /\ RowsKept
  BY <1>1 DEF TbaInv, RowsKept
<1>6. /\ Ledger!LedgerInv' /\ DeploymentLasts'
      /\ \A nid \in Nids : accounts'[Custody][nid] = accounts[Custody][nid]
  BY <1>1, LedgerUnchanged
<1>7. CoinsGrow
  <2>1. coins' = coins \/ \E q \in 1 .. MaxCoins : SendCoins(q)
    BY DEF Createtba, Setstatus, Genmanifest, vars
  <2>2. coins \in 0 .. MaxCoins
    BY DEF TbaInv
  <2>3. QED
    BY <2>1, <2>2, Constants DEF SendCoins, CoinsGrow
<1>8. QED
  BY <1>3, <1>4, <1>5, <1>6, <1>7, KeepingStep

(* The owner's settings of rows.                                           *)
LEMMA SettingsStep ==
  ASSUME TbaInv,
         \/ \E id \in Ids, mode \in ModeChoices : Setmode(id, mode)
         \/ \E tba \in Nids, ids \in SUBSET Ids, state \in BOOLEAN : FreezeOwn(tba, ids, state)
  PROVE  TbaInv' /\ LeavesToHolder
<1>1. UNCHANGED ntvars /\ UNCHANGED <<tbas, coins, manifests>>
  BY DEF Setmode, FreezeOwn
<1>2. assets' \in Rows /\ RowsKept
  <2>1. CASE \E id \in Ids, mode \in ModeChoices : Setmode(id, mode)
    <3>1. PICK id \in Ids, mode \in ModeChoices : Setmode(id, mode)
      BY <2>1
    <3>2. mode \in Modes /\ id \in DOMAIN assets
          /\ assets' = [assets EXCEPT ![id].settlement_mode = mode]
      BY <3>1, Constants DEF Setmode
    <3>3. QED
      BY <3>2, RowsRetagged
  <2>2. CASE \E tba \in Nids, ids \in SUBSET Ids, state \in BOOLEAN :
               FreezeOwn(tba, ids, state)
    <3>1. PICK ids \in SUBSET Ids, state \in BOOLEAN : assets' = Frozen(ids, state)
      BY <2>2 DEF FreezeOwn
    <3>2. "deliverable" \in Modes
      BY DEF Modes
    <3>3. QED
      BY <3>1, <3>2, RowsRetagged
  <2>3. QED
    BY <2>1, <2>2
<1>3. TbasAreTyped' /\ manifests' \in 0 .. MaxManifests
  BY <1>1 DEF TbaInv, TbasAreTyped
<1>4. /\ Ledger!LedgerInv' /\ DeploymentLasts'
      /\ \A nid \in Nids : accounts'[Custody][nid] = accounts[Custody][nid]
  BY <1>1, LedgerUnchanged
<1>5. QED
  BY <1>1, <1>2, <1>3, <1>4, KeepingStep DEF CoinsGrow

(* The steps of gnos.ntoken by itself.                                     *)
LEMMA NTokenStep ==
  ASSUME TbaInv, NTokenNext
  PROVE  TbaInv' /\ LeavesToHolder
<1>1. /\ Ledger!LedgerInv' /\ DeploymentLasts'
      /\ \A nid \in Nids : accounts'[Custody][nid] = accounts[Custody][nid]
  <2>1. \A a \in Users \cup {Mart} : a \in Accounts \ {Custody}
    BY Constants
  <2>2. QED
    BY <2>1, TransferNftStep, IssueNftStep DEF NTokenNext, IssueNft, RetireNft
<1>2. UNCHANGED tbavars
  BY DEF NTokenNext, TransferNft, IssueNft, RetireNft
<1>3. UNCHANGED <<tbas, assets, coins, manifests>>
  BY <1>2 DEF tbavars
<1>4. /\ TbasAreTyped' /\ manifests' \in 0 .. MaxManifests
      /\ assets' \in Rows /\ RowsKept
  BY <1>3 DEF TbaInv, TbasAreTyped, RowsKept
<1>5. QED
  BY <1>1, <1>3, <1>4, KeepingStep DEF CoinsGrow

(* A row is new as NewAsset makes it.                                      *)
LEMMA NewAssetIsTyped ==
  ASSUME NEW tba \in Nids, NEW what \in Nids \cup {Coin},
         NEW amount \in 1 .. Supply + MaxCoins
  PROVE  /\ NewAsset(tba, what, amount) \in Asset
         /\ NewAsset(tba, what, amount).what = what
         /\ NewAsset(tba, what, amount).amount = amount
<1>1. "deliverable" \in Modes /\ FALSE \in BOOLEAN
  BY DEF Modes
<1>2. QED
  BY <1>1 DEF NewAsset, Asset

(* New rows and what arrives with them.                                    *)
LEMMA DepositStep ==
  ASSUME TbaInv, Ledger!LedgerInv', DeploymentLasts', UNCHANGED <<tbas, manifests>>,
         NEW new \in Seq(Asset), RoomFor(Len(new)), assets' = Recorded(new),
         coins' \in 0 .. MaxCoins, coins' = coins + Brought(new, Coin),
         Brought(new, Coin) \in Nat,
         \A nid \in Nids :
           accounts'[Custody][nid] = accounts[Custody][nid] + Brought(new, nid)
  PROVE  TbaInv' /\ LeavesToHolder
<1>1. /\ assets' \in Rows /\ RowsStay
      /\ \A what : Records(assets', what) = Records(assets, what) + Brought(new, what)
  BY RowsRecorded
<1>2. CustodyIsExact'
  <2>1. Records(assets, Coin) \in Nat /\ coins \in Int
    BY RecordsColumn, Constants DEF TbaInv
  <2>2. Records(assets', Coin) <= coins'
    BY <1>1, <2>1, CustodyHolds
  <2>3. QED
    BY <1>1, <2>2, CustodyHolds, CustodyFollows
<1>3. LeavesToHolder
  BY <1>1 DEF RowsStay, LeavesToHolder
<1>4. TbasAreTyped'
  BY DEF TbaInv, TbasAreTyped
<1>5. QED
  BY <1>1, <1>2, <1>3, <1>4 DEF TbaInv

(* Ordinary tokens are deposited in one row.                               *)
LEMMA DeposittokenStep ==
  ASSUME TbaInv, NEW a \in Users, NEW tba \in Nids, NEW q \in 1 .. MaxCoins,
         Deposittoken(a, tba, q)
  PROVE  TbaInv' /\ LeavesToHolder
<1> DEFINE row == NewAsset(tba, Coin, q)
           new == <<row>>
<1>1. row \in Asset /\ row.what = Coin /\ row.amount = q
  <2>1. q \in 1 .. Supply + MaxCoins
    BY Constants
  <2>2. QED
    BY <2>1, NewAssetIsTyped
<1>2. /\ coins + q <= MaxCoins /\ coins' = coins + q /\ RoomFor(1)
      /\ assets' = Recorded(new) /\ UNCHANGED ntvars /\ UNCHANGED <<tbas, manifests>>
  BY DEF Deposittoken
<1> HIDE DEF row
<1>3. new \in Seq(Asset) /\ Len(new) = 1 /\ DOMAIN new = {1} /\ new[1] = row
  BY <1>1
<1> HIDE DEF new
<1>4. Brought(new, Coin) = q
  <2> DEFINE f == [i \in {j \in DOMAIN new : new[j].what = Coin} |-> new[i].amount]
             z == [i \in {1} |-> 0]
  <2>1. f \in [{1} -> Nat] /\ f[1] = q /\ z \in [{1} -> Nat] /\ z[1] = 0
    BY <1>1, <1>3, Constants
  <2>2. IsFiniteSet({1}) /\ Total(z) = 0
    BY <2>1, FS_Singleton, TotalZero
  <2>3. Total(f) \in Nat
    BY <2>1, <2>2, TotalType
  <2> HIDE DEF f, z
  <2>4. Total(f) + z[1] = Total(z) + f[1]
    BY <2>1, <2>2, TotalUpdate
  <2>5. Total(f) = q
    BY <2>1, <2>2, <2>3, <2>4
  <2>6. QED
    BY <2>5 DEF Brought, f
<1>5. \A nid \in Nids : Brought(new, nid) = 0
  <2> TAKE nid \in Nids
  <2> DEFINE f == [i \in {j \in DOMAIN new : new[j].what = nid} |-> new[i].amount]
  <2>1. {j \in DOMAIN new : new[j].what = nid} = {}
    BY <1>1, <1>3, Constants
  <2>2. f \in [{} -> Nat]
    BY <2>1
  <2>3. Total(f) = 0
    BY <2>2, TotalZero
  <2>4. QED
    BY <2>3 DEF Brought
<1>6. /\ coins' \in 0 .. MaxCoins /\ coins' = coins + Brought(new, Coin)
      /\ Brought(new, Coin) \in Nat
  BY <1>2, <1>4, Constants DEF TbaInv
<1>7. /\ Ledger!LedgerInv' /\ DeploymentLasts'
      /\ \A nid \in Nids : accounts'[Custody][nid] = accounts[Custody][nid]
  BY <1>2, LedgerUnchanged
<1>8. \A nid \in Nids : accounts'[Custody][nid] = accounts[Custody][nid] + Brought(new, nid)
  <2>1. Custody \in Accounts
    BY Constants
  <2>2. QED
    BY <1>5, <1>7, <2>1, LedgerFacts
<1>9. QED
  BY <1>2, <1>3, <1>6, <1>7, <1>8, DepositStep

(* NFTs are deposited with a row for every element of the vector, and the  *)
(* rows of one NFT add up to the units of it that arrive.                  *)
LEMMA DepositNftStep ==
  ASSUME TbaInv, NEW a \in Users, NEW tba \in Nids, NEW v \in Vectors,
         DepositNft(a, tba, v)
  PROVE  TbaInv' /\ LeavesToHolder
<1> DEFINE new == [i \in DOMAIN v |-> NewAsset(tba, v[i].nid, v[i].amount)]
<1>1. /\ NT!Transfer(a, Custody, Amounts(v)) /\ NT!CanTransfer(a, Custody, Amounts(v))
      /\ RoomFor(Len(v)) /\ assets' = Recorded(new)
      /\ UNCHANGED <<tbas, coins, manifests>>
  BY DEF DepositNft, NT!Transfer
<1>2. /\ DOMAIN v = 1 .. Len(v) /\ Len(v) \in Nat
      /\ \A i \in DOMAIN v : v[i].nid \in Nids /\ v[i].amount \in 1 .. Supply
      /\ \A nid \in Nids : NT!Quantity(Amounts(v), nid) = Total(AmountsOf(v, nid))
  BY VectorUnits
<1>3. \A i \in DOMAIN v : /\ new[i] \in Asset
                          /\ new[i].what = v[i].nid /\ new[i].amount = v[i].amount
  <2> TAKE i \in DOMAIN v
  <2>1. v[i].nid \in Nids \cup {Coin} /\ v[i].amount \in 1 .. Supply + MaxCoins
    BY <1>2, Constants
  <2>2. QED
    BY <2>1, NewAssetIsTyped
<1>4. DOMAIN new = DOMAIN v
  OBVIOUS
<1>5. new \in Seq(Asset) /\ Len(new) = Len(v)
  <2>1. new \in [1 .. Len(v) -> Asset]
    BY <1>2, <1>3
  <2> HIDE DEF new
  <2>2. QED
    BY <1>2, <2>1
<1> HIDE DEF new
<1>6. \A nid \in Nids : Brought(new, nid) = NT!Quantity(Amounts(v), nid)
  <2> TAKE nid \in Nids
  <2>1. {j \in DOMAIN new : new[j].what = nid} = {j \in DOMAIN v : v[j].nid = nid}
    BY <1>3, <1>4
  <2>2. [i \in {j \in DOMAIN new : new[j].what = nid} |-> new[i].amount] = AmountsOf(v, nid)
    BY <1>3, <2>1 DEF AmountsOf
  <2>3. QED
    BY <1>2, <2>2 DEF Brought
<1>7. Brought(new, Coin) = 0
  <2> DEFINE f == [i \in {j \in DOMAIN new : new[j].what = Coin} |-> new[i].amount]
  <2>1. {j \in DOMAIN new : new[j].what = Coin} = {}
    BY <1>2, <1>3, <1>4, Constants
  <2>2. f \in [{} -> Nat]
    BY <2>1
  <2>3. Total(f) = 0
    BY <2>2, TotalZero
  <2>4. QED
    BY <2>3 DEF Brought
<1>8. a \in Accounts /\ Custody \in Accounts
  BY Constants
<1>9. /\ Ledger!LedgerInv' /\ DeploymentLasts' /\ MovedUnits(a, Custody, Amounts(v))
  BY <1>1, <1>8, VectorIsUnits, Transfers
<1>10. /\ coins' \in 0 .. MaxCoins /\ coins' = coins + Brought(new, Coin)
       /\ Brought(new, Coin) \in Nat
  BY <1>1, <1>7, Constants DEF TbaInv
<1>11. \A nid \in Nids : accounts'[Custody][nid] = accounts[Custody][nid] + Brought(new, nid)
  BY <1>6, <1>9 DEF MovedUnits
<1>12. QED
  BY <1>1, <1>5, <1>9, <1>10, <1>11, DepositStep

(* Erasing a row, and paying out what it records.                          *)
LEMMA WithdrawStep ==
  ASSUME TbaInv, NEW tba \in Nids, NEW id \in Ids, Withdraw(tba, id)
  PROVE  TbaInv' /\ LeavesToHolder
<1> DEFINE owner == tbas[tba].owner
           what  == assets[id].what
           q     == assets[id].amount
<1>1. /\ assets \in Rows /\ id \in DOMAIN assets /\ assets[id].tba = tba
      /\ ~assets[id].frozen
      /\ tba \in DOMAIN tbas /\ accounts[owner][tba] >= tbas[tba].root_amount
      /\ assets' = [i \in DOMAIN assets \ {id} |-> assets[i]]
      /\ UNCHANGED <<tbas, manifests>>
  BY DEF Withdraw, OwnerInControl, Erased, TbaInv
<1>2. owner \in Users /\ owner \in Accounts /\ owner # Custody /\ Custody \in Accounts
  <2>1. tbas[tba] \in Tba
    BY <1>1 DEF TbaInv, TbasAreTyped
  <2>2. QED
    BY <2>1, Constants DEF Tba
<1>3. what \in Nids \cup {Coin} /\ q \in Nat \ {0}
  BY <1>1, RowFields
<1>4. assets' \in Rows
  <2>1. PICK D \in SUBSET Ids : assets \in [D -> Asset]
    BY <1>1 DEF Rows
  <2>2. D \ {id} \in SUBSET Ids /\ assets' \in [D \ {id} -> Asset]
    BY <1>1, <2>1
  <2>3. QED
    BY <2>2 DEF Rows
<1>5. /\ Records(assets', what) + q = Records(assets, what)
      /\ \A other : other # what => Records(assets', other) = Records(assets, other)
      /\ \A other : Records(assets', other) \in Nat
  <2>1. \A other : Records(assets', other) + Amount(assets, other, id) = Records(assets, other)
    BY <1>1, <1>4, RecordsErased
  <2>2. /\ Amount(assets, what, id) = q
        /\ \A other : other # what => Amount(assets, other, id) = 0
    BY <1>1 DEF Amount
  <2>3. \A other : Records(assets', other) \in Nat
    BY <1>4, RecordsColumn
  <2>4. ASSUME NEW other, other # what PROVE Records(assets', other) = Records(assets, other)
    <3>1. Records(assets', other) + 0 = Records(assets, other)
      BY <2>1, <2>2, <2>4
    <3>2. QED
      BY <2>3, <3>1
  <2>5. QED
    BY <2>1, <2>2, <2>3, <2>4
<1>6. CASE what = Coin
  <2>1. coins >= q /\ coins' = coins - q /\ UNCHANGED ntvars
    BY <1>6 DEF Withdraw, CanPayOut, PayOut
  <2>2. /\ Ledger!LedgerInv' /\ DeploymentLasts'
        /\ \A nid \in Nids : accounts'[Custody][nid] = accounts[Custody][nid]
    BY <2>1, LedgerUnchanged
  <2>3. coins' \in 0 .. MaxCoins
    BY <1>3, <2>1, Constants DEF TbaInv
  <2>4. CustodyIsExact'
    <3>1. Records(assets', Coin) <= coins'
      <4>1. /\ Records(assets', Coin) + q = Records(assets, Coin)
            /\ Records(assets', Coin) \in Nat /\ Records(assets, Coin) <= coins
        BY <1>5, <1>6, CustodyHolds
      <4>2. coins \in Int
        BY Constants DEF TbaInv
      <4> HIDE DEF q
      <4>3. QED
        BY <1>3, <2>1, <4>1, <4>2
    <3>2. \A nid \in Nids : Records(assets', nid) = accounts'[Custody][nid]
      BY <1>5, <1>6, <2>2, CustodyHolds, Constants
    <3>3. QED
      BY <3>1, <3>2, CustodyFollows
  <2>5. LeavesToHolder
    BY <1>1, <1>6 DEF LeavesToHolder
  <2>6. QED
    BY <1>1, <1>4, <2>2, <2>3, <2>4, <2>5 DEF TbaInv, TbasAreTyped
<1>7. CASE what \in Nids
  <2> DEFINE units == [n \in {what} |-> q]
  <2>1. NT!Transfer(Custody, owner, units) /\ UNCHANGED coins
    BY <1>7, Constants DEF Withdraw, PayOut
  <2>2. q \in 1 .. Supply
    <3>1. q <= accounts[Custody][what]
      BY <2>1 DEF NT!Transfer, NT!CanTransfer, NT!CanSub
    <3>2. accounts[Custody][what] \in 0 .. Supply
      BY <1>2, <1>7, LedgerFacts
    <3>3. QED
      BY <1>3, <3>1, <3>2, Constants
  <2> HIDE DEF what, q
  <2>3. /\ units \in Ledger!AssetVectors
        /\ NT!Quantity(units, what) = q
        /\ \A n \in Nids \ {what} : NT!Quantity(units, n) = 0
    BY <1>7, <2>2, UnitsOfOne
  <2> HIDE DEF units, owner
  <2>4. Ledger!LedgerInv' /\ DeploymentLasts' /\ MovedUnits(Custody, owner, units)
    BY <1>2, <2>1, <2>3, Transfers
  <2>5. /\ accounts'[Custody][what] = accounts[Custody][what] - q
        /\ accounts'[owner][what] = accounts[owner][what] + q
        /\ \A n \in Nids \ {what} : accounts'[Custody][n] = accounts[Custody][n]
    <3>1. \A n \in Nids : accounts[Custody][n] \in Nat
      BY <1>2, LedgerFacts
    <3>2. QED
      BY <1>7, <2>3, <2>4, <3>1 DEF MovedUnits
  <2>6. CustodyIsExact'
    <3>1. Records(assets', Coin) <= coins'
      BY <1>5, <1>7, <2>1, CustodyHolds, Constants
    <3>2. Records(assets', what) = accounts'[Custody][what]
      <4>1. Records(assets, what) = accounts[Custody][what] /\ Records(assets', what) \in Nat
        BY <1>5, <1>7, CustodyHolds
      <4>2. QED
        BY <1>3, <1>5, <2>5, <4>1
    <3>3. \A nid \in Nids \ {what} : Records(assets', nid) = accounts'[Custody][nid]
      BY <1>5, <2>5, CustodyHolds
    <3>4. QED
      BY <3>1, <3>2, <3>3, CustodyFollows
  <2>7. LeavesToHolder
    BY <1>1, <2>5 DEF LeavesToHolder, owner, what, q
  <2>8. QED
    BY <1>1, <1>4, <2>1, <2>4, <2>6, <2>7 DEF TbaInv, TbasAreTyped
<1>8. QED
  BY <1>3, <1>6, <1>7

(* Every step keeps the invariant, and hands out assets to holders alone.  *)
LEMMA TbaStep == TbaInv /\ [Next]_vars => TbaInv' /\ LeavesToHolder
<1> SUFFICES ASSUME TbaInv, [Next]_vars PROVE TbaInv' /\ LeavesToHolder
  OBVIOUS
<1>1. CASE NTokenNext
  BY <1>1, NTokenStep
<1>2. CASE \E a \in Users, tba \in Nids, q \in 1 .. MaxCoins : Deposittoken(a, tba, q)
  BY <1>2, DeposittokenStep
<1>3. CASE \E a \in Users, tba \in Nids, v \in Vectors : DepositNft(a, tba, v)
  BY <1>3, DepositNftStep
<1>4. CASE \E tba \in Nids, id \in 1 .. MaxAssetId : Withdraw(tba, id)
  BY <1>4, WithdrawStep DEF Ids
<1>5. CASE \/ \E id \in 1 .. MaxAssetId, mode \in ModeChoices : Setmode(id, mode)
           \/ \E tba \in Nids, ids \in SUBSET (1 .. MaxAssetId), state \in BOOLEAN :
                FreezeOwn(tba, ids, state)
  BY <1>5, SettingsStep DEF Ids
<1>6. CASE \/ \E a \in Users, nid \in Nids, q \in 1 .. Supply : Createtba(a, nid, q)
           \/ \E tba \in Nids, status \in StatusChoices : Setstatus(tba, status)
           \/ \E tba \in Nids : Genmanifest(tba)
           \/ \E q \in 1 .. MaxCoins : SendCoins(q)
           \/ UNCHANGED vars
  BY <1>6, RegistryStep
<1>7. QED
  BY <1>1, <1>2, <1>3, <1>4, <1>5, <1>6 DEF Next, TbaNext

(* Every token starts out in the hands of its issuer, in full.             *)
LEMMA TbaInit == Init => TbaInv
<1> SUFFICES ASSUME Init PROVE TbaInv
  OBVIOUS
<1>1. PICK issuer \in [Nids -> Users] :
        /\ tokenstats = [nid \in Nids |->
             [supply |-> Supply, max_supply |-> Supply, token_uri |-> "uri",
              ipowner |-> NoName, notary |-> NoName, issuer |-> issuer[nid]]]
        /\ accounts = [a \in Accounts |-> [nid \in Nids |->
             IF a = issuer[nid] THEN Supply ELSE 0]]
  BY DEF Init
<1>2. /\ whitelist = {} \/ whitelist = {Mart, Custody}
      /\ DOMAIN tbas = {} /\ DOMAIN assets = {} /\ coins = 0 /\ manifests = 0
  BY DEF Init
<1>3. /\ NT!Created = Nids /\ \A nid \in Nids : issuer[nid] \in Users
      /\ \A nid \in Nids : /\ tokenstats[nid].supply = Supply
                           /\ tokenstats[nid].max_supply = Supply
                           /\ tokenstats[nid].issuer = issuer[nid]
      /\ \A a \in Accounts, nid \in Nids :
           accounts[a][nid] = IF a = issuer[nid] THEN Supply ELSE 0
  BY <1>1 DEF NT!Created
<1>4. DeploymentLasts
  BY <1>2, <1>3 DEF DeploymentLasts
<1>5. NT!TypeOK
  <2>1. \A nid \in Nids : tokenstats[nid] \in NT!Stat
    <3> TAKE nid \in Nids
    <3>1. /\ tokenstats[nid] =
               [supply |-> Supply, max_supply |-> Supply, token_uri |-> "uri",
                ipowner |-> NoName, notary |-> NoName, issuer |-> issuer[nid]]
          /\ Supply \in 0 .. Supply /\ Supply \in 1 .. Supply
          /\ issuer[nid] \in Accounts /\ NoName \in Names
      BY <1>1, Constants
    <3>2. QED
      BY <3>1 DEF NT!Stat
  <2>2. tokenstats \in [Nids -> NT!Stat]
    BY <1>1, <2>1
  <2>3. accounts \in [Accounts -> [Nids -> 0 .. Supply]]
    <3>1. Supply \in 0 .. Supply /\ 0 \in 0 .. Supply
      BY Constants
    <3>2. QED
      BY <1>1, <3>1
  <2>4. whitelist \subseteq Names /\ Nids \subseteq Nids \ {0}
    BY <1>2, Constants DEF Names
  <2>5. QED
    BY <1>3, <2>2, <2>3, <2>4 DEF NT!TypeOK
<1>6. Ledger!SupplyConserved
  <2> SUFFICES ASSUME NEW nid \in Nids
               PROVE  Ledger!Total(Ledger!HoldingsOf(nid)) = Supply
    BY <1>3, SameTypes, Constants DEF Ledger!SupplyConserved
  <2> DEFINE f == [a \in Accounts |-> accounts[a][nid]]
             z == [a \in Accounts |-> 0]
  <2>1. /\ f \in [Accounts -> Nat] /\ z \in [Accounts -> Nat]
        /\ issuer[nid] \in Accounts /\ f[issuer[nid]] = Supply /\ z[issuer[nid]] = 0
        /\ \A a \in Accounts \ {issuer[nid]} : f[a] = z[a]
        /\ \A a \in Accounts : z[a] = 0
    BY <1>3, Constants
  <2>2. Ledger!Total(Ledger!HoldingsOf(nid)) = Total(f)
    BY SameTotal DEF Ledger!HoldingsOf
  <2> HIDE DEF f, z
  <2>3. Total(f) + z[issuer[nid]] = Total(z) + f[issuer[nid]]
    BY <2>1, Constants, TotalUpdate
  <2>4. Total(z) = 0 /\ Total(f) \in Nat
    BY <2>1, Constants, TotalZero, TotalType
  <2>5. QED
    BY <2>1, <2>2, <2>3, <2>4, Constants
<1>7. TbasAreTyped
  BY <1>2 DEF TbasAreTyped, Init
<1>8. assets \in Rows
  <2>1. {} \in SUBSET Ids /\ assets \in [{} -> Asset]
    BY DEF Init
  <2>2. QED
    BY <2>1 DEF Rows
<1>9. CustodyIsExact
  <2>1. \A what : Records(assets, what) = 0
    <3> TAKE what
    <3>1. [id \in {i \in DOMAIN assets : assets[i].what = what} |-> assets[id].amount]
            \in [{} -> Nat]
      BY <1>2
    <3>2. QED
      BY <3>1, TotalZero DEF Records
  <2>2. \A nid \in Nids : accounts[Custody][nid] = 0
    BY <1>3, Constants
  <2>3. QED
    BY <1>2, <2>1, <2>2 DEF CustodyIsExact, RecordedOf, Records
<1>10. Ledger!LedgerInv
  BY <1>5, <1>6, SameTypes DEF Ledger!LedgerInv
<1>11. QED
  BY <1>2, <1>4, <1>7, <1>8, <1>9, <1>10, Constants DEF TbaInv

-----------------------------------------------------------------------------
(* The theorems.                                                           *)

(* The invariant of tba.account holds in every state.                      *)
LEMMA TbaInvHolds == Spec => []TbaInv
BY TbaInit, TbaStep, PTL DEF Spec

(* The rows, TBAs and balances keep their types: no id beyond the bound,   *)
(* no amount of zero.                                                      *)
THEOREM TbaIsTyped == Spec => []TypeOK
BY TbaInvHolds, TbaInvTypes, PTL

(* tba.account never holds less than its rows say, and of NFTs never more. *)
THEOREM CustodyStaysExact == Spec => []CustodyIsExact
<1>1. TbaInv => CustodyIsExact
  BY DEF TbaInv
<1>2. QED
  BY <1>1, TbaInvHolds, PTL

(* What custody holds suffices for every row, and who is to be paid cannot *)
(* hold so much already that the addition would be refused.                *)
LEMMA RowsArePayable ==
  ASSUME TbaInv, NEW id \in DOMAIN assets, NEW owner \in Users
  PROVE  CanPayOut(owner, assets[id])
<1> DEFINE what == assets[id].what
           q    == assets[id].amount
<1>1. /\ assets \in Rows /\ id \in Ids /\ what \in Nids \cup {Coin} /\ q \in Nat \ {0}
  BY RowFields DEF TbaInv
<1>2. q <= Records(assets, what)
  <2> DEFINE f == AmountColumn(assets, what)
  <2>1. /\ IsFiniteSet(Ids) /\ f \in [Ids -> Nat]
        /\ Records(assets, what) = Total(f)
    BY <1>1, RecordsColumn
  <2>2. f[id] = q
    BY <1>1 DEF AmountColumn, Amount
  <2> HIDE DEF f
  <2>3. QED
    BY <1>1, <2>1, <2>2, TotalBoundsRow
<1>3. CASE what = Coin
  <2>1. Records(assets, Coin) \in Nat /\ coins \in Int
    BY <1>1, RecordsColumn, Constants DEF TbaInv
  <2>2. q <= coins
    BY <1>1, <1>2, <1>3, <2>1, CustodyHolds
  <2>3. QED
    BY <1>3, <2>2 DEF CanPayOut
<1>4. CASE what \in Nids
  <2> DEFINE units == [n \in {what} |-> q]
  <2>1. owner \in Accounts /\ Custody \in Accounts /\ owner # Custody /\ what # Coin
    BY <1>4, Constants
  <2>2. q <= accounts[Custody][what] /\ accounts[owner][what] \in Nat
        /\ accounts[Custody][what] \in Nat
        /\ accounts[Custody][what] + accounts[owner][what] <= Supply
    BY <1>2, <1>4, <2>1, CustodyHolds, LedgerFacts
  <2>3. accounts[owner][what] + q <= Supply
    BY <1>1, <2>2, Constants
  <2>4. what \in NT!Created /\ NT!WhitelistAllows(Custody, owner)
    BY <1>4 DEF TbaInv, DeploymentLasts, NT!WhitelistAllows
  <2>5. DOMAIN units = {what} /\ units[what] = q
    OBVIOUS
  <2> HIDE DEF units, q
  <2>6. NT!CanTransfer(Custody, owner, units)
    BY <1>1, <2>1, <2>2, <2>3, <2>4, <2>5 DEF NT!CanTransfer, NT!CanSub, NT!CanAdd
  <2>7. QED
    BY <2>1, <2>6 DEF CanPayOut, units, q
<1>5. QED
  BY <1>1, <1>3, <1>4

(* No deposit is ever stuck: withdraw can pay every asset to the owner in  *)
(* control of its TBA.                                                     *)
THEOREM DepositsStayPayable == Spec => []AssetsArePayable
<1>1. TbaInv => AssetsArePayable
  <2> SUFFICES ASSUME TbaInv, NEW id \in DOMAIN assets,
                      OwnerInControl(accounts, assets[id].tba)
               PROVE  CanPayOut(tbas[assets[id].tba].owner, assets[id])
    BY DEF AssetsArePayable
  <2>1. assets[id].tba \in DOMAIN tbas
    BY DEF OwnerInControl
  <2>2. tbas[assets[id].tba].owner \in Users
    BY <2>1 DEF TbaInv, TbasAreTyped, Tba
  <2>3. QED
    BY <2>2, RowsArePayable
<1>2. QED
  BY <1>1, TbaInvHolds, PTL

(* Only withdraw takes an asset out of a TBA, and it pays the holder of    *)
(* the root NFT.                                                           *)
THEOREM OnlyTheHolderIsPaid == Spec => OnlyHolderWithdraws
<1>1. TbaInv /\ [Next]_vars => [LeavesToHolder]_vars
  BY TbaStep
<1>2. QED
  BY <1>1, TbaInit, TbaStep, PTL DEF Spec, OnlyHolderWithdraws

-----------------------------------------------------------------------------
(* What only the owner in control of a TBA can change.                     *)

(* What the invariant says of two accounts, whoever they are.              *)
PairsFit ==
  \A a, b \in Accounts, nid \in Nids :
    /\ accounts[a][nid] \in Nat
    /\ a # b => accounts[a][nid] + accounts[b][nid] <= Supply

(* No two accounts together hold more than there is of an NFT.             *)
LEMMA PairsAlwaysFit == TbaInv => PairsFit
BY LedgerFacts DEF PairsFit

(* A TBA keeps its owner and root amount, and its rows are as they were.   *)
TbasLast ==
  \A tba \in DOMAIN tbas : /\ tba \in DOMAIN tbas'
                           /\ tbas'[tba].owner = tbas[tba].owner
                           /\ tbas'[tba].root_amount = tbas[tba].root_amount

RowsOfKept(tba) ==
  /\ \A id \in DOMAIN assets :
       assets[id].tba = tba => id \in DOMAIN assets' /\ assets'[id] = assets[id]
  /\ \A id \in DOMAIN assets' :
       assets'[id].tba = tba => id \in DOMAIN assets /\ assets'[id] = assets[id]

(* tba.reg changes no owner: only a sale does.                             *)
LEMMA TbasStay ==
  ASSUME TbaInv, [Next]_vars
  PROVE  /\ TbasLast
         /\ \A tba \in DOMAIN tbas' \ DOMAIN tbas :
              accounts' = accounts /\ \E a \in Users : accounts[a][tba] >= 1
<1>1. tbas \in [DOMAIN tbas -> Tba]
  BY DEF TbaInv, TbasAreTyped
<1>2. CASE UNCHANGED tbas
  BY <1>2 DEF TbasLast
<1>3. CASE \E a \in Users, nid \in Nids, q \in 1 .. Supply : Createtba(a, nid, q)
  <2>1. PICK a \in Users, nid \in Nids, q \in 1 .. Supply : Createtba(a, nid, q)
    BY <1>3
  <2>2. accounts[a][nid] >= 1
    <3>1. accounts[a][nid] >= q /\ accounts[a][nid] \in Nat
      BY <2>1, LedgerFacts, Constants DEF Createtba
    <3>2. QED
      BY <3>1
  <2>3. QED
    BY <2>1, <2>2 DEF Createtba, ntvars, TbasLast
<1>4. CASE \E tba \in Nids, status \in StatusChoices : Setstatus(tba, status)
  BY <1>1, <1>4 DEF Setstatus, TbasLast, Tba
<1>5. QED
  BY <1>2, <1>3, <1>4
     DEF Next, TbaNext, NTokenNext, vars, TransferNft, IssueNft, RetireNft, tbavars,
         Deposittoken, DepositNft, Withdraw, Setmode, FreezeOwn, Genmanifest, SendCoins

(* New rows beside the others are the only new ones.                       *)
LEMMA RowsAdded ==
  ASSUME TbaInv, NEW new \in Seq(Asset), RoomFor(Len(new)), assets' = Recorded(new),
         NEW tba, \A i \in 1 .. Len(new) : new[i].tba = tba
  PROVE  /\ RowsStay
         /\ \A id \in DOMAIN assets' :
              (id \in DOMAIN assets /\ assets'[id] = assets[id]) \/ assets'[id].tba = tba
<1> DEFINE base == NextAssetId
<1>1. RowsStay
  BY RowsRecorded
<1>2. assets' = Extended(assets, base, new) /\ base \in Nat /\ Len(new) \in Nat
  BY NextIdIsNew DEF Recorded, Extended, TbaInv
<1> HIDE DEF base
<1>3. ASSUME NEW id \in DOMAIN assets'
      PROVE  (id \in DOMAIN assets /\ assets'[id] = assets[id]) \/ assets'[id].tba = tba
  <2>1. CASE id \in base .. base + Len(new) - 1
    <3>1. id - base + 1 \in 1 .. Len(new) /\ assets'[id] = new[id - base + 1]
      BY <1>2, <1>3, <2>1 DEF Extended
    <3>2. QED
      BY <3>1
  <2>2. CASE id \notin base .. base + Len(new) - 1
    BY <1>2, <1>3, <2>2 DEF Extended
  <2>3. QED
    BY <2>1, <2>2
<1>4. QED
  BY <1>1, <1>3

(* No row changes but those of one TBA, before.                            *)
OnlyRowsOf(tba) ==
  /\ \A id \in DOMAIN assets :
       assets[id].tba = tba \/ (id \in DOMAIN assets' /\ assets'[id] = assets[id])
  /\ \A id \in DOMAIN assets' :
       assets'[id].tba = tba \/ (id \in DOMAIN assets /\ assets'[id] = assets[id])

(* A row that is new in its TBA was put there by its owner in control,     *)
(* once the deposit has left the owner's balance.                          *)
RowsGrow ==
  \A id \in DOMAIN assets' :
    \/ /\ id \in DOMAIN assets
       /\ assets'[id].tba = assets[id].tba /\ assets'[id].what = assets[id].what
    \/ OwnerInControl(accounts', assets'[id].tba)

RowsChange ==
  \/ UNCHANGED assets
  \/ \E tba \in Nids :
       /\ OwnerInControl(accounts, tba) \/ OwnerInControl(accounts', tba)
       /\ OnlyRowsOf(tba)

(* Deposits: by the owner in control.                                      *)
LEMMA DepositsAreOfOwners ==
  ASSUME TbaInv, NEW a \in Users, NEW tba \in Nids,
         \/ \E q \in 1 .. MaxCoins : Deposittoken(a, tba, q)
         \/ \E v \in Vectors : DepositNft(a, tba, v)
  PROVE  RowsChange /\ RowsGrow
<1>1. OwnerInControl(accounts', tba)
  BY DEF Deposittoken, DepositNft, ntvars, NT!Transfer
<1>2. PICK new \in Seq(Asset) : /\ RoomFor(Len(new)) /\ assets' = Recorded(new)
                                /\ \A i \in 1 .. Len(new) : new[i].tba = tba
  <2>1. CASE \E q \in 1 .. MaxCoins : Deposittoken(a, tba, q)
    <3>1. PICK q \in 1 .. MaxCoins : Deposittoken(a, tba, q)
      BY <2>1
    <3> DEFINE row == NewAsset(tba, Coin, q)
    <3>2. row \in Asset /\ row.tba = tba
      <4>1. q \in 1 .. Supply + MaxCoins
        BY Constants
      <4>2. row \in Asset
        BY <4>1, NewAssetIsTyped
      <4>3. QED
        BY <4>2 DEF NewAsset
    <3>3. RoomFor(1) /\ assets' = Recorded(<<row>>)
      BY <3>1 DEF Deposittoken
    <3> HIDE DEF row
    <3> DEFINE new == <<row>>
    <3>4. new \in Seq(Asset) /\ Len(new) = 1 /\ new[1] = row /\ assets' = Recorded(new)
      BY <3>2, <3>3
    <3> HIDE DEF new
    <3>5. \A i \in 1 .. Len(new) : new[i].tba = tba
      BY <3>2, <3>4
    <3>6. RoomFor(Len(new))
      BY <3>3, <3>4
    <3>7. QED
      BY <3>4, <3>5, <3>6
  <2>2. CASE \E v \in Vectors : DepositNft(a, tba, v)
    <3>1. PICK v \in Vectors : DepositNft(a, tba, v)
      BY <2>2
    <3> DEFINE new == [i \in DOMAIN v |-> NewAsset(tba, v[i].nid, v[i].amount)]
    <3>2. RoomFor(Len(v)) /\ assets' = Recorded(new)
      BY <3>1 DEF DepositNft
    <3>3. /\ DOMAIN v = 1 .. Len(v) /\ Len(v) \in Nat
          /\ \A i \in DOMAIN v : v[i].nid \in Nids /\ v[i].amount \in 1 .. Supply
      BY VectorUnits
    <3>4. \A i \in DOMAIN v : new[i] \in Asset /\ new[i].tba = tba
      <4> TAKE i \in DOMAIN v
      <4>1. v[i].nid \in Nids \cup {Coin} /\ v[i].amount \in 1 .. Supply + MaxCoins
        BY <3>3, Constants
      <4>2. NewAsset(tba, v[i].nid, v[i].amount) \in Asset
        BY <4>1, NewAssetIsTyped
      <4>3. QED
        BY <4>2 DEF NewAsset
    <3>5. new \in [1 .. Len(v) -> Asset]
      BY <3>3, <3>4
    <3> HIDE DEF new
    <3>6. new \in Seq(Asset) /\ Len(new) = Len(v)
      BY <3>3, <3>5
    <3>7. QED
      BY <3>2, <3>3, <3>4, <3>6
  <2>3. QED
    BY <2>1, <2>2
<1>3. /\ RowsStay
      /\ \A id \in DOMAIN assets' :
           (id \in DOMAIN assets /\ assets'[id] = assets[id]) \/ assets'[id].tba = tba
  BY <1>2, RowsAdded
<1>4. OnlyRowsOf(tba)
  BY <1>3 DEF RowsStay, OnlyRowsOf
<1>5. RowsGrow
  BY <1>1, <1>3 DEF RowsGrow
<1>6. QED
  BY <1>1, <1>4, <1>5 DEF RowsChange

(* Every change of rows is by the owner in control.                        *)
LEMMA RowsAreOfOwners ==
  ASSUME TbaInv, [Next]_vars
  PROVE  RowsChange /\ RowsGrow
<1>1. CASE UNCHANGED assets
  BY <1>1 DEF RowsChange, RowsGrow
<1>2. CASE \/ \E a \in Users, tba \in Nids, q \in 1 .. MaxCoins : Deposittoken(a, tba, q)
           \/ \E a \in Users, tba \in Nids, v \in Vectors : DepositNft(a, tba, v)
  BY <1>2, DepositsAreOfOwners
<1>3. CASE \E tba \in Nids, id \in 1 .. MaxAssetId : Withdraw(tba, id)
  <2>1. PICK tba \in Nids, id \in 1 .. MaxAssetId : Withdraw(tba, id)
    BY <1>3
  <2>2. /\ OwnerInControl(accounts, tba) /\ assets[id].tba = tba
        /\ assets' = [i \in DOMAIN assets \ {id} |-> assets[i]]
    BY <2>1 DEF Withdraw, Erased
  <2>3. OnlyRowsOf(tba) /\ RowsGrow
    BY <2>2 DEF OnlyRowsOf, RowsGrow
  <2>4. QED
    BY <2>2, <2>3 DEF RowsChange
<1>4. CASE \/ \E id \in Ids, mode \in ModeChoices : Setmode(id, mode)
           \/ \E tba \in Nids, ids \in SUBSET Ids, state \in BOOLEAN : FreezeOwn(tba, ids, state)
  <2>1. RowsGrow
    <3>1. RowsKept
      <4>1. CASE \E id \in Ids, mode \in ModeChoices : Setmode(id, mode)
        <5>1. PICK id \in DOMAIN assets, mode \in Modes :
                assets' = [assets EXCEPT ![id].settlement_mode = mode]
          BY <4>1, Constants DEF Setmode
        <5>2. QED
          BY <5>1, RowsRetagged
      <4>2. CASE \E tba \in Nids, ids \in SUBSET Ids, state \in BOOLEAN :
                   FreezeOwn(tba, ids, state)
        <5>1. PICK ids \in SUBSET Ids, state \in BOOLEAN : assets' = Frozen(ids, state)
          BY <4>2 DEF FreezeOwn
        <5>2. "deliverable" \in Modes
          BY DEF Modes
        <5>3. QED
          BY <5>1, <5>2, RowsRetagged
      <4>3. QED
        BY <1>4, <4>1, <4>2
    <3>2. QED
      BY <3>1 DEF RowsKept, RowsGrow
  <2>2. RowsChange
    <3>1. CASE \E id \in Ids, mode \in ModeChoices : Setmode(id, mode)
      <4>1. PICK id \in Ids, mode \in ModeChoices : Setmode(id, mode)
        BY <3>1
      <4>2. /\ OwnerInControl(accounts, assets[id].tba) /\ id \in DOMAIN assets
            /\ assets' = [assets EXCEPT ![id].settlement_mode = mode]
        BY <4>1 DEF Setmode
      <4>3. assets[id].tba \in Nids /\ assets[id] \in Asset
        BY <4>2, RowFields DEF TbaInv
      <4>4. OnlyRowsOf(assets[id].tba)
        <5>1. /\ DOMAIN assets' = DOMAIN assets
              /\ \A i \in DOMAIN assets \ {id} : assets'[i] = assets[i]
              /\ assets'[id].tba = assets[id].tba
          BY <4>2, <4>3 DEF Asset
        <5>2. QED
          BY <5>1 DEF OnlyRowsOf
      <4>5. QED
        BY <4>2, <4>3, <4>4 DEF RowsChange
    <3>2. CASE \E tba \in Nids, ids \in SUBSET Ids, state \in BOOLEAN :
                 FreezeOwn(tba, ids, state)
      <4>1. PICK tba \in Nids, ids \in SUBSET Ids, state \in BOOLEAN :
              FreezeOwn(tba, ids, state)
        BY <3>2
      <4>2. /\ OwnerInControl(accounts, tba) /\ assets' = Frozen(ids, state)
            /\ \A id \in ids : assets[id].tba = tba
        BY <4>1 DEF FreezeOwn, CanFreeze
      <4>3. "deliverable" \in Modes
        BY DEF Modes
      <4>4. RowsKept
        BY <4>2, <4>3, RowsRetagged
      <4>5. OnlyRowsOf(tba)
        <5>1. /\ DOMAIN assets' = DOMAIN assets
              /\ \A i \in DOMAIN assets \ ids : assets'[i] = assets[i]
              /\ \A i \in DOMAIN assets : assets'[i].tba = assets[i].tba
          BY <4>2, <4>4 DEF Frozen, RowsKept
        <5>2. QED
          BY <4>2, <5>1 DEF OnlyRowsOf
      <4>6. QED
        BY <4>2, <4>5 DEF RowsChange
    <3>3. QED
      BY <1>4, <3>1, <3>2
  <2>3. QED
    BY <2>1, <2>2
<1>5. QED
  BY <1>1, <1>2, <1>3, <1>4
     DEF Next, TbaNext, NTokenNext, vars, TransferNft, IssueNft, RetireNft, tbavars,
         Createtba, Setstatus, Genmanifest, SendCoins, Ids

(* A TBA whose owner is not in control stays shut.                         *)
LEMMA ShutTbas ==
  ASSUME TbaInv, [Next]_vars, NEW tba \in Nids,
         ~ OwnerInControl(accounts, tba), ~ OwnerInControl(accounts', tba)
  PROVE  RowsOfKept(tba)
BY RowsAreOfOwners DEF RowsChange, OnlyRowsOf, RowsOfKept

-----------------------------------------------------------------------------
(* Rings of TBAs.                                                          *)

(* A root that is inside a TBA is in custody.                              *)
RootsInCustody ==
  \A id \in DOMAIN assets :
    assets[id].what \in Nids => accounts[Custody][assets[id].what] >= 1

(* What a TBA holds is in the account of tba.account.                      *)
LEMMA RootsAreInCustody == TbaInv => RootsInCustody
<1> SUFFICES ASSUME TbaInv, NEW id \in DOMAIN assets, assets[id].what \in Nids
             PROVE  accounts[Custody][assets[id].what] >= 1
  BY DEF RootsInCustody
<1> DEFINE what == assets[id].what
           f    == AmountColumn(assets, what)
<1>1. /\ IsFiniteSet(Ids) /\ f \in [Ids -> Nat]
      /\ Records(assets, what) = Total(f) /\ Records(assets, what) \in Nat
  BY RecordsColumn DEF TbaInv
<1>2. id \in Ids /\ f[id] = assets[id].amount /\ assets[id].amount \in Nat \ {0}
  <2>1. id \in Ids /\ assets[id].amount \in Nat \ {0}
    BY RowFields DEF TbaInv
  <2>2. QED
    BY <2>1 DEF AmountColumn, Amount
<1>3. Records(assets, what) = accounts[Custody][what]
  BY CustodyHolds
<1> HIDE DEF f, what
<1>4. f[id] <= Total(f)
  BY <1>1, <1>2, TotalBoundsRow
<1>5. QED
  BY <1>1, <1>2, <1>3, <1>4 DEF what

(* The only unit of a NFT is in one place.                                 *)
LEMMA OnePlace ==
  ASSUME Supply = 1, NEW b, \A x, y \in Accounts, n \in Nids :
                              b[x][n] \in Nat /\ (x # y => b[x][n] + b[y][n] <= Supply),
         NEW x \in Accounts, NEW y \in Accounts, x # y, NEW n \in Nids, b[x][n] >= 1
  PROVE  ~ (b[y][n] >= 1)
<1>1. b[x][n] \in Nat /\ b[y][n] \in Nat /\ b[x][n] + b[y][n] <= 1
  OBVIOUS
<1>2. QED
  BY <1>1

(* A ring that a step closed was closed before: nobody is in control of a  *)
(* TBA of which the root is in custody.                                    *)
LEMMA NoNewRing ==
  ASSUME Supply = 1, TbaInv, TbaInv', NoCustodyRing, [Next]_vars
  PROVE  NoCustodyRing'
<1>1. PairsFit' /\ RootsInCustody'
  BY PairsAlwaysFit, RootsAreInCustody, PTL
<1>2. SUFFICES ASSUME NEW ring \in (SUBSET DOMAIN tbas') \ {{}},
                      \A tba \in ring : \E outer \in ring : tba \in InsideOf(outer)'
               PROVE  FALSE
  BY DEF NoCustodyRing
<1>3. ASSUME NEW tba \in ring
      PROVE  tba \in Nids /\ accounts'[Custody][tba] >= 1
  <2>1. tba \in Nids
    BY DEF TbaInv, TbasAreTyped
  <2>2. PICK id \in DOMAIN assets' : assets'[id].what = tba
    BY <1>2, <1>3 DEF InsideOf
  <2>3. QED
    BY <1>1, <2>1, <2>2 DEF RootsInCustody
<1>4. ASSUME NEW tba \in ring, NEW a \in Users PROVE ~ (accounts'[a][tba] >= 1)
  <2>1. a \in Accounts /\ Custody \in Accounts /\ a # Custody
    BY Constants
  <2> DEFINE b == accounts'
  <2>2. \A x, y \in Accounts, n \in Nids :
          b[x][n] \in Nat /\ (x # y => b[x][n] + b[y][n] <= Supply)
    BY <1>1 DEF PairsFit
  <2>3. tba \in Nids /\ b[Custody][tba] >= 1
    BY <1>3
  <2> HIDE DEF b
  <2>4. ~ (b[a][tba] >= 1)
    BY <2>1, <2>2, <2>3, OnePlace
  <2>5. QED
    BY <2>4 DEF b
<1>5. ring \subseteq DOMAIN tbas
  BY <1>4, TbasStay
<1>6. ASSUME NEW tba \in ring PROVE ~ OwnerInControl(accounts', tba)
  <2>1. tbas[tba] \in Tba
    BY <1>5, <1>6 DEF TbaInv, TbasAreTyped
  <2>2. tbas[tba].owner \in Users /\ tbas[tba].root_amount \in Nat \ {0}
    BY <2>1, Constants DEF Tba
  <2>3. tbas[tba].owner \in Accounts /\ accounts'[tbas[tba].owner][tba] \in Nat
    BY <1>1, <1>3, <2>2, Constants DEF PairsFit
  <2>4. ~ (accounts'[tbas[tba].owner][tba] >= tbas[tba].root_amount)
    BY <1>4, <2>2, <2>3
  <2>5. QED
    BY <2>4 DEF OwnerInControl
<1>7. \A tba \in ring : \E outer \in ring : tba \in InsideOf(outer)
  <2> TAKE tba \in ring
  <2>1. PICK outer \in ring : tba \in InsideOf(outer)'
    BY <1>2
  <2>2. PICK id \in DOMAIN assets' : assets'[id].tba = outer /\ assets'[id].what = tba
    BY <2>1 DEF InsideOf
  <2>3. id \in DOMAIN assets /\ assets[id].tba = outer /\ assets[id].what = tba
    BY <1>6, <2>2, RowsAreOfOwners DEF RowsGrow
  <2>4. QED
    BY <1>5, <2>3 DEF InsideOf
<1>8. QED
  BY <1>2, <1>5, <1>7 DEF NoCustodyRing

(* Where every NFT is unique no TBA ever contains its own root, through any*)
(* chain of other TBAs: such a ring could never be opened again.           *)
THEOREM NoRingForms == ASSUME Supply = 1 PROVE Spec => []NoCustodyRing
<1>1. Init => NoCustodyRing
  BY DEF Init, NoCustodyRing
<1>2. TbaInv /\ TbaInv' /\ NoCustodyRing /\ [Next]_vars => NoCustodyRing'
  BY NoNewRing
<1>3. QED
  BY <1>1, <1>2, TbaInvHolds, PTL DEF Spec

=============================================================================

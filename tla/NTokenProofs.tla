---------------------------- MODULE NTokenProofs ----------------------------
(***************************************************************************)
(* Proofs about the ledger of gnos.ntoken, for any number of accounts and  *)
(* tokens: every balance stays in the range of an nasset, and the units of *)
(* a token are conserved.                                                  *)
(***************************************************************************)
EXTENDS NToken, TotalsTheorems

(* Create in the form the proofs use: what it does to one row.             *)
LEMMA CreateEffect ==
  ASSUME TypeOK, NEW issuer \in Accounts, NEW max \in 1 .. MaxAmount,
         NEW nid \in Nids, NEW uri \in Uris, NEW ipowner \in Names,
         Create(issuer, max, nid, uri, ipowner)
  PROVE  /\ nid \notin Created /\ nid # 0
         /\ Created' = Created \cup {nid}
         /\ \A n \in Created : tokenstats'[n] = tokenstats[n]
         /\ tokenstats'[nid].supply = 0
         /\ tokenstats'[nid].max_supply = max
         /\ tokenstats' \in [Created' -> Stat]
<1> USE NTokenAssumption DEF TypeOK, Create, CanCreate, NewStat, WithToken, Created, IdIsFree
<1> DEFINE row == [supply |-> 0, max_supply |-> max, token_uri |-> uri,
                   ipowner |-> ipowner, notary |-> NoName, issuer |-> issuer]
<1>1. row \in Stat
  BY DEF Stat
<1>2. tokenstats' = [n \in Created \cup {nid} |-> IF n = nid THEN row ELSE tokenstats[n]]
  OBVIOUS
<1> HIDE DEF row
<1>3. tokenstats' \in [Created \cup {nid} -> Stat]
  BY <1>1, <1>2
<1>4. row.supply = 0 /\ row.max_supply = max
  BY DEF row
<1>5. QED
  BY <1>1, <1>2, <1>3, <1>4

(* A transfer keeps every balance in range, moves exactly the amounts      *)
(* asked for, and touches nobody else.                                     *)
LEMMA TransferEffect ==
  ASSUME TypeOK, NEW from \in Accounts, NEW to \in Accounts,
         NEW assets \in AssetVectors, Transfer(from, to, assets)
  PROVE  /\ accounts' \in [Accounts -> [Nids -> 0 .. MaxAmount]]
         /\ from # to
         /\ \A nid \in Nids :
              /\ Quantity(assets, nid) \in Nat
              /\ Quantity(assets, nid) <= accounts[from][nid]
              /\ accounts'[from][nid] = accounts[from][nid] - Quantity(assets, nid)
              /\ accounts'[to][nid] = accounts[to][nid] + Quantity(assets, nid)
              /\ \A a \in Accounts \ {from, to} : accounts'[a][nid] = accounts[a][nid]
<1> USE NTokenAssumption DEF Transfer, CanTransfer
<1>1. PICK D \in SUBSET Nids : assets \in [D -> 1 .. MaxAmount]
  BY DEF AssetVectors
<1>2. accounts \in [Accounts -> [Nids -> 0 .. MaxAmount]]
  BY DEF TypeOK
<1>3. \A nid \in Nids :
        /\ Quantity(assets, nid) \in Nat
        /\ Quantity(assets, nid) <= accounts[from][nid]
        /\ accounts[to][nid] + Quantity(assets, nid) <= MaxAmount
  BY <1>1, <1>2 DEF Quantity, CanSub, CanAdd
<1>4. from # to /\ accounts' = Moved(from, to, assets)
  OBVIOUS
<1>5. \A nid \in Nids :
        /\ accounts'[from][nid] = accounts[from][nid] - Quantity(assets, nid)
        /\ accounts'[to][nid] = accounts[to][nid] + Quantity(assets, nid)
        /\ \A a \in Accounts \ {from, to} : accounts'[a][nid] = accounts[a][nid]
  BY <1>2, <1>4 DEF Moved
<1>6. accounts' \in [Accounts -> [Nids -> 0 .. MaxAmount]]
  <2> DEFINE less == [nid \in Nids |-> accounts[from][nid] - Quantity(assets, nid)]
             more == [nid \in Nids |-> accounts[to][nid] + Quantity(assets, nid)]
  <2>1. less \in [Nids -> 0 .. MaxAmount]
    <3>1. \A nid \in Nids : accounts[from][nid] \in 0 .. MaxAmount
      BY <1>2
    <3>2. QED
      BY <1>3, <3>1
  <2>2. more \in [Nids -> 0 .. MaxAmount]
    <3>1. \A nid \in Nids : accounts[to][nid] \in 0 .. MaxAmount
      BY <1>2
    <3>2. QED
      BY <1>3, <3>1
  <2>3. accounts' = [accounts EXCEPT ![from] = less, ![to] = more]
    BY <1>2, <1>4 DEF Moved
  <2> HIDE DEF less, more
  <2>4. QED
    BY <1>2, <2>1, <2>2, <2>3
<1>7. QED
  BY <1>3, <1>4, <1>5, <1>6

(* The inductive invariant: retire can only be shown to keep the recorded  *)
(* supply from going negative because the supply is what the holders have. *)
LedgerInv == TypeOK /\ SupplyConserved

(* The holdings of one token are a column of naturals.                     *)
LEMMA Column ==
  ASSUME TypeOK, NEW nid \in Nids
  PROVE  /\ HoldingsOf(nid) \in [Accounts -> Nat]
         /\ Total(HoldingsOf(nid)) \in Nat
         /\ \A a \in Accounts : HoldingsOf(nid)[a] = accounts[a][nid]
         /\ \A a \in Accounts : accounts[a][nid] <= Total(HoldingsOf(nid))
<1>1. HoldingsOf(nid) \in [Accounts -> Nat]
  <2>1. \A a \in Accounts : accounts[a][nid] \in Nat
    BY NTokenAssumption DEF TypeOK
  <2>2. QED
    BY <2>1 DEF HoldingsOf
<1>2. \A a \in Accounts : HoldingsOf(nid)[a] = accounts[a][nid]
  BY DEF HoldingsOf
<1>3. IsFiniteSet(Accounts)
  BY NTokenAssumption
<1>4. Total(HoldingsOf(nid)) \in Nat
  BY <1>1, <1>3, TotalType, Zenon
<1>5. \A a \in Accounts : HoldingsOf(nid)[a] <= Total(HoldingsOf(nid))
  BY <1>1, <1>3, TotalBoundsRow, Zenon
<1>6. QED
  BY <1>1, <1>2, <1>4, <1>5

(* The column of one nid after a step, from the balances after it.         *)
LEMMA ColumnNext ==
  ASSUME TypeOK', NEW nid \in Nids
  PROVE  /\ HoldingsOf(nid)' \in [Accounts -> Nat]
         /\ Total(HoldingsOf(nid))' \in Nat
<1>1. \A a \in Accounts : accounts'[a][nid] \in Nat
  BY NTokenAssumption DEF TypeOK
<1>2. HoldingsOf(nid)' \in [Accounts -> Nat]
  BY <1>1 DEF HoldingsOf
<1>3. Total(HoldingsOf(nid)') \in Nat
  BY <1>2, NTokenAssumption, TotalType, Zenon
<1>4. QED
  BY <1>2, <1>3 DEF Total, UnitsOf

(* A step that changes the balance of one account of one token changes the *)
(* total of that token alone, and by the same difference.                  *)
LEMMA OneBalance ==
  ASSUME TypeOK, TypeOK', NEW owner \in Accounts, NEW nid \in Nids, NEW b,
         accounts' = [accounts EXCEPT ![owner][nid] = b]
  PROVE  /\ Total(HoldingsOf(nid))' + accounts[owner][nid] = Total(HoldingsOf(nid)) + b
         /\ \A n \in Nids \ {nid} : HoldingsOf(n)' = HoldingsOf(n)
<1>1. /\ HoldingsOf(nid)' \in [Accounts -> Nat]
      /\ HoldingsOf(nid) \in [Accounts -> Nat]
  BY Column, ColumnNext
<1>2. accounts \in [Accounts -> [Nids -> 0 .. MaxAmount]]
  BY DEF TypeOK
<1>3. /\ HoldingsOf(nid)'[owner] = b
      /\ HoldingsOf(nid)[owner] = accounts[owner][nid]
      /\ \A a \in Accounts \ {owner} : HoldingsOf(nid)'[a] = HoldingsOf(nid)[a]
  BY <1>2 DEF HoldingsOf
<1>4. Total(HoldingsOf(nid)') + HoldingsOf(nid)[owner] =
        Total(HoldingsOf(nid)) + HoldingsOf(nid)'[owner]
  <2> DEFINE f == HoldingsOf(nid)
             g == HoldingsOf(nid)'
  <2>1. /\ IsFiniteSet(Accounts) /\ f \in [Accounts -> Nat] /\ g \in [Accounts -> Nat]
        /\ \A a \in Accounts \ {owner} : g[a] = f[a]
    BY <1>1, <1>3, NTokenAssumption
  <2> HIDE DEF f, g
  <2>2. Total(g) + f[owner] = Total(f) + g[owner]
    BY <2>1, TotalUpdate
  <2>3. QED
    BY <2>2 DEF f, g
<1>5. Total(HoldingsOf(nid))' = Total(HoldingsOf(nid)')
  BY DEF Total, UnitsOf
<1>6. \A n \in Nids \ {nid} : HoldingsOf(n)' = HoldingsOf(n)
  <2> SUFFICES ASSUME NEW n \in Nids \ {nid} PROVE HoldingsOf(n)' = HoldingsOf(n)
    OBVIOUS
  <2>1. \A a \in Accounts : accounts'[a][n] = accounts[a][n]
    BY <1>2
  <2>2. QED
    BY <2>1 DEF HoldingsOf
<1>7. QED
  BY <1>3, <1>4, <1>5, <1>6

(* Adding d to one balance and to the supply of the same token, within its *)
(* cap, conserves supplies: the common part of issue and retire.           *)
LEMMA SupplyStep ==
  ASSUME LedgerInv, TypeOK', NEW nid \in Created, NEW owner \in Accounts,
         NEW d \in Int,
         tokenstats' = [tokenstats EXCEPT ![nid].supply = tokenstats[nid].supply + d],
         accounts' = [accounts EXCEPT ![owner][nid] = accounts[owner][nid] + d],
         tokenstats[nid].supply + d <= tokenstats[nid].max_supply
  PROVE  SupplyConserved'
<1> USE NTokenAssumption
<1>1. TypeOK /\ SupplyConserved /\ nid \in Nids /\ Created \subseteq Nids
  BY DEF LedgerInv, TypeOK
<1>2. /\ tokenstats[nid].supply \in Nat
      /\ accounts[owner][nid] \in Nat
      /\ tokenstats \in [Created -> Stat]
  BY <1>1 DEF TypeOK, Stat
<1>3. Created' = Created
  BY DEF Created
<1>4. /\ Total(HoldingsOf(nid))' + accounts[owner][nid] =
           Total(HoldingsOf(nid)) + (accounts[owner][nid] + d)
      /\ \A n \in Nids \ {nid} : HoldingsOf(n)' = HoldingsOf(n)
  BY <1>1, OneBalance
<1>5. Total(HoldingsOf(nid)) \in Nat /\ Total(HoldingsOf(nid))' \in Nat
  BY <1>1, Column, ColumnNext
<1>6. /\ Total(HoldingsOf(nid))' = tokenstats[nid].supply + d
      /\ tokenstats'[nid].supply = tokenstats[nid].supply + d
      /\ tokenstats'[nid].max_supply = tokenstats[nid].max_supply
  <2>1. Total(HoldingsOf(nid)) = tokenstats[nid].supply
    BY <1>1 DEF SupplyConserved
  <2>2. Total(HoldingsOf(nid))' = tokenstats[nid].supply + d
    BY <1>2, <1>4, <1>5, <2>1
  <2>3. /\ tokenstats'[nid].supply = tokenstats[nid].supply + d
        /\ tokenstats'[nid].max_supply = tokenstats[nid].max_supply
    BY <1>2 DEF Stat, Created
  <2>4. QED
    BY <2>2, <2>3
<1>7. \A n \in Nids \ {nid} :
        /\ Total(HoldingsOf(n))' = Total(HoldingsOf(n))
        /\ n \in Created => tokenstats'[n] = tokenstats[n]
  <2>1. \A n \in Nids \ {nid} : Total(HoldingsOf(n))' = Total(HoldingsOf(n))
    BY <1>4 DEF Total, UnitsOf
  <2>2. QED
    BY <1>2, <2>1 DEF Created
<1>8. QED
  BY <1>1, <1>3, <1>6, <1>7 DEF SupplyConserved

(* issue keeps the ledger balanced and every supply within its cap.        *)
LEMMA IssueInv ==
  ASSUME LedgerInv, NEW nid \in Nids, NEW amount \in 1 .. MaxAmount,
         Issue(nid, amount)
  PROVE  LedgerInv'
<1> USE NTokenAssumption
<1> DEFINE issuer == tokenstats[nid].issuer
<1>1. /\ TypeOK /\ nid \in Created /\ issuer \in Accounts
      /\ tokenstats[nid].supply \in 0 .. MaxAmount
      /\ tokenstats[nid].max_supply \in 1 .. MaxAmount
      /\ amount <= tokenstats[nid].max_supply - tokenstats[nid].supply
  BY DEF LedgerInv, TypeOK, Issue, Stat
<1>2. accounts[issuer][nid] \in 0 .. MaxAmount
  BY <1>1 DEF TypeOK
<1>3. /\ tokenstats' = [tokenstats EXCEPT ![nid].supply = tokenstats[nid].supply + amount]
      /\ accounts' = [accounts EXCEPT ![issuer][nid] = accounts[issuer][nid] + amount]
      /\ accounts[issuer][nid] + amount <= MaxAmount
  BY <1>1 DEF TypeOK, Issue, CanAdd
<1>4. Created' = Created
  BY <1>3 DEF Created
<1>5. TypeOK'
  <2>1. tokenstats[nid].supply + amount \in 0 .. MaxAmount
    BY <1>1
  <2>2. tokenstats' \in [Created' -> Stat]
    BY <1>1, <1>3, <1>4, <2>1 DEF TypeOK, Stat
  <2>3. accounts[issuer][nid] + amount \in 0 .. MaxAmount
    BY <1>2, <1>3
  <2>4. accounts' \in [Accounts -> [Nids -> 0 .. MaxAmount]]
    BY <1>1, <1>3, <2>3 DEF TypeOK
  <2>5. QED
    BY <1>1, <1>4, <2>2, <2>4 DEF TypeOK, Issue, roles
<1>6. SupplyConserved'
  <2>1. amount \in Int /\ tokenstats[nid].supply + amount <= tokenstats[nid].max_supply
    BY <1>1
  <2>2. QED
    BY <1>1, <1>3, <1>5, <2>1, SupplyStep
<1>7. QED
  BY <1>5, <1>6 DEF LedgerInv

(* retire takes the same from the supply and from one balance.             *)
LEMMA RetireInv ==
  ASSUME LedgerInv, NEW nid \in Nids, NEW amount \in 1 .. MaxAmount,
         Retire(nid, amount)
  PROVE  LedgerInv'
<1> USE NTokenAssumption
<1> DEFINE issuer == tokenstats[nid].issuer
<1>1. /\ TypeOK /\ nid \in Created /\ issuer \in Accounts
      /\ tokenstats[nid].supply \in 0 .. MaxAmount
      /\ tokenstats[nid].max_supply \in 1 .. MaxAmount
      /\ amount <= accounts[issuer][nid]
  BY DEF LedgerInv, TypeOK, Retire, CanSub, Stat
<1>2. accounts[issuer][nid] \in 0 .. MaxAmount
  BY <1>1 DEF TypeOK
<1>3. accounts[issuer][nid] <= tokenstats[nid].supply
  <2>1. Total(HoldingsOf(nid)) = tokenstats[nid].supply
    BY <1>1 DEF LedgerInv, SupplyConserved
  <2>2. QED
    BY <1>1, <2>1, Column
<1>4. /\ tokenstats' = [tokenstats EXCEPT ![nid].supply = tokenstats[nid].supply + (-amount)]
      /\ accounts' = [accounts EXCEPT ![issuer][nid] = accounts[issuer][nid] + (-amount)]
  <2>1. /\ tokenstats[nid].supply - amount = tokenstats[nid].supply + (-amount)
        /\ accounts[issuer][nid] - amount = accounts[issuer][nid] + (-amount)
    BY <1>1, <1>2
  <2>2. QED
    BY <1>1, <2>1 DEF TypeOK, Retire
<1>5. Created' = Created
  BY <1>4 DEF Created
<1>6. tokenstats[nid].supply + (-amount) \in 0 .. tokenstats[nid].max_supply
  <2>1. tokenstats[nid].supply <= tokenstats[nid].max_supply
    BY <1>1 DEF LedgerInv, SupplyConserved
  <2>2. QED
    BY <1>1, <1>2, <1>3, <2>1
<1>7. TypeOK'
  <2>1. tokenstats' \in [Created' -> Stat]
    <3>1. tokenstats[nid].supply + (-amount) \in 0 .. MaxAmount
      BY <1>1, <1>6
    <3>2. QED
      BY <1>1, <1>4, <1>5, <3>1 DEF TypeOK, Stat
  <2>2. accounts[issuer][nid] + (-amount) \in 0 .. MaxAmount
    BY <1>1, <1>2
  <2>3. accounts' \in [Accounts -> [Nids -> 0 .. MaxAmount]]
    BY <1>1, <1>4, <2>2 DEF TypeOK
  <2>4. QED
    BY <1>1, <1>5, <2>1, <2>3 DEF TypeOK, Retire, roles
<1>8. SupplyConserved'
  <2>1. -amount \in Int
    OBVIOUS
  <2>2. tokenstats[nid].supply + (-amount) <= tokenstats[nid].max_supply
    BY <1>1, <1>6
  <2>3. QED
    BY <1>1, <1>4, <1>7, <2>1, <2>2, SupplyStep
<1>9. QED
  BY <1>7, <1>8 DEF LedgerInv

(* transfer leaves every supply and every sum of balances alone.           *)
LEMMA TransferInv ==
  ASSUME LedgerInv, NEW from \in Accounts, NEW to \in Accounts,
         NEW assets \in AssetVectors, Transfer(from, to, assets)
  PROVE  LedgerInv'
<1> USE NTokenAssumption
<1>1. TypeOK /\ SupplyConserved
  BY DEF LedgerInv
<1>2. /\ accounts' \in [Accounts -> [Nids -> 0 .. MaxAmount]]
      /\ from # to
      /\ \A nid \in Nids :
           /\ Quantity(assets, nid) \in Nat
           /\ Quantity(assets, nid) <= accounts[from][nid]
           /\ accounts'[from][nid] = accounts[from][nid] - Quantity(assets, nid)
           /\ accounts'[to][nid] = accounts[to][nid] + Quantity(assets, nid)
           /\ \A a \in Accounts \ {from, to} : accounts'[a][nid] = accounts[a][nid]
  BY <1>1, TransferEffect
<1>3. UNCHANGED <<tokenstats, creators, notaries, whitelist>>
  BY DEF Transfer, roles
<1>4. TypeOK'
  BY <1>1, <1>2, <1>3 DEF TypeOK, Created
<1>5. \A nid \in Nids : Total(HoldingsOf(nid))' = Total(HoldingsOf(nid))
  <2> SUFFICES ASSUME NEW nid \in Nids
               PROVE  Total(HoldingsOf(nid))' = Total(HoldingsOf(nid))
    OBVIOUS
  <2> DEFINE f == HoldingsOf(nid)
             g == HoldingsOf(nid)'
             q == Quantity(assets, nid)
  <2>1. /\ f \in [Accounts -> Nat] /\ g \in [Accounts -> Nat] /\ q \in Nat
        /\ \A a \in Accounts : f[a] = accounts[a][nid]
        /\ \A a \in Accounts : g[a] = accounts'[a][nid]
    BY <1>1, <1>2, <1>4, Column, ColumnNext DEF HoldingsOf
  <2>2. /\ IsFiniteSet(Accounts) /\ from # to
        /\ g[from] = f[from] - q /\ g[to] = f[to] + q
        /\ \A a \in Accounts \ {from, to} : g[a] = f[a]
    BY <1>2, <2>1
  <2> HIDE DEF f, g, q
  <2>3. Total(g) = Total(f)
    BY <2>1, <2>2, TotalMove
  <2>4. QED
    BY <2>3 DEF Total, UnitsOf, f, g
<1>6. SupplyConserved'
  BY <1>1, <1>3, <1>5 DEF SupplyConserved, Created
<1>7. QED
  BY <1>4, <1>6 DEF LedgerInv

(* A new token starts with nothing issued and nothing held.                *)
LEMMA CreateInv ==
  ASSUME LedgerInv, NEW issuer \in Accounts, NEW max \in 1 .. MaxAmount,
         NEW nid \in Nids, NEW uri \in Uris, NEW ipowner \in Names,
         Create(issuer, max, nid, uri, ipowner)
  PROVE  LedgerInv'
<1> USE NTokenAssumption
<1>1. TypeOK /\ SupplyConserved
  BY DEF LedgerInv
<1>2. /\ nid \notin Created /\ nid # 0
      /\ Created' = Created \cup {nid}
      /\ \A n \in Created : tokenstats'[n] = tokenstats[n]
      /\ tokenstats'[nid].supply = 0
      /\ tokenstats'[nid].max_supply = max
      /\ tokenstats' \in [Created' -> Stat]
  BY <1>1, CreateEffect
<1>3. UNCHANGED <<accounts, creators, notaries, whitelist>>
  BY DEF Create, roles
<1>4. TypeOK'
  BY <1>1, <1>2, <1>3 DEF TypeOK
<1>5. \A n \in Nids : Total(HoldingsOf(n))' = Total(HoldingsOf(n))
  BY <1>3 DEF HoldingsOf, Total, UnitsOf
<1>6. Total(HoldingsOf(nid)) = 0
  BY <1>1, <1>2 DEF SupplyConserved
<1>7. SupplyConserved'
  BY <1>1, <1>2, <1>5, <1>6 DEF SupplyConserved
<1>8. QED
  BY <1>4, <1>7 DEF LedgerInv

(* The other actions leave balances, supplies and caps alone.              *)
LEMMA SettingsInv ==
  ASSUME LedgerInv,
         \/ \E notary \in Accounts, nid \in Nids : Notarize(notary, nid)
         \/ AdminNext
         \/ UNCHANGED vars
  PROVE  LedgerInv'
<1> USE NTokenAssumption
<1>1. TypeOK /\ SupplyConserved
  BY DEF LedgerInv
<1>2. /\ UNCHANGED accounts
      /\ Created' = Created
      /\ tokenstats' \in [Created -> Stat]
      /\ \A n \in Created : /\ tokenstats'[n].supply = tokenstats[n].supply
                            /\ tokenstats'[n].max_supply = tokenstats[n].max_supply
  <2> USE <1>1 DEF TypeOK, Stat, Created
  <2>1. CASE \E notary \in Accounts, nid \in Nids : Notarize(notary, nid)
    <3>1. PICK notary \in Accounts, nid \in Nids : Notarize(notary, nid)
      BY <2>1
    <3>2. nid \in Created /\ notary \in Names
      BY <3>1 DEF Notarize
    <3>3. UNCHANGED accounts /\ tokenstats' = [tokenstats EXCEPT ![nid].notary = notary]
      BY <3>1 DEF Notarize
    <3>4. QED
      BY <3>2, <3>3
  <2>2. CASE \E nid \in Nids, name \in AdminNames : Setipowner(nid, name)
    BY <2>2 DEF Setipowner
  <2>3. CASE \E nid \in Nids, uri \in Uris : Settokenuri(nid, uri)
    BY <2>3 DEF Settokenuri
  <2>4. CASE UNCHANGED <<tokenstats, accounts>>
    BY <2>4
  <2>5. QED
    BY <2>1, <2>2, <2>3, <2>4
       DEF AdminNext, Setnotary, Addwhitelist, Delwhitelist, Setcreator, vars
<1>3. creators' \subseteq Names /\ notaries' \subseteq Names /\ whitelist' \subseteq Names
  BY <1>1 DEF AdminNext, Notarize, Setipowner, Settokenuri, Setnotary,
              Addwhitelist, Delwhitelist, Setcreator, roles, vars, TypeOK
<1>4. TypeOK'
  BY <1>1, <1>2, <1>3 DEF TypeOK
<1>5. \A n \in Nids : Total(HoldingsOf(n))' = Total(HoldingsOf(n))
  BY <1>2 DEF HoldingsOf, Total, UnitsOf
<1>6. SupplyConserved'
  BY <1>1, <1>2, <1>5 DEF SupplyConserved
<1>7. QED
  BY <1>4, <1>6 DEF LedgerInv

(* The empty ledger balances.                                              *)
LEMMA LedgerInit == Init => LedgerInv
<1> SUFFICES ASSUME Init PROVE LedgerInv
  OBVIOUS
<1> USE NTokenAssumption
<1>1. Created = {}
  BY DEF Init, Created
<1>2. TypeOK
  BY <1>1 DEF Init, TypeOK
<1>3. \A nid \in Nids : Total(HoldingsOf(nid)) = 0
  <2> TAKE nid \in Nids
  <2>1. /\ HoldingsOf(nid) \in [Accounts -> Nat]
        /\ \A a \in Accounts : HoldingsOf(nid)[a] = 0
    BY DEF Init, HoldingsOf
  <2>2. QED
    BY <2>1, TotalZero
<1>4. QED
  BY <1>1, <1>2, <1>3 DEF LedgerInv, SupplyConserved

(* No action of gnos.ntoken unbalances the ledger.                         *)
LEMMA LedgerStep == LedgerInv /\ [Next]_vars => LedgerInv'
<1> SUFFICES ASSUME LedgerInv, [Next]_vars PROVE LedgerInv'
  OBVIOUS
<1>1. CASE \E issuer \in Accounts, max \in 1 .. MaxAmount, nid \in Nids,
              uri \in Uris, ipowner \in Names : Create(issuer, max, nid, uri, ipowner)
  BY <1>1, CreateInv
<1>2. CASE \E nid \in Nids, amount \in 1 .. MaxAmount : Issue(nid, amount)
  BY <1>2, IssueInv
<1>3. CASE \E nid \in Nids, amount \in 1 .. MaxAmount : Retire(nid, amount)
  BY <1>3, RetireInv
<1>4. CASE \E from, to \in Accounts, assets \in AssetVectors : Transfer(from, to, assets)
  BY <1>4, TransferInv
<1>5. CASE \/ \E notary \in Accounts, nid \in Nids : Notarize(notary, nid)
           \/ AdminNext
           \/ UNCHANGED vars
  BY <1>5, SettingsInv
<1>6. QED
  BY <1>1, <1>2, <1>3, <1>4, <1>5 DEF Next, UserNext

(* The ledger of gnos.ntoken never leaves its types: no balance or supply  *)
(* goes below zero or beyond what an asset may be, and only the nids that  *)
(* were created have a row.                                                *)
THEOREM LedgerIsTyped == Spec => []TypeOK
<1>1. LedgerInv => TypeOK
  BY DEF LedgerInv
<1>2. QED
  BY <1>1, LedgerInit, LedgerStep, PTL DEF Spec

(* The ledger conserves every token: no sequence of actions mints a unit   *)
(* outside issue, loses one outside retire, or drives a supply over its    *)
(* cap.                                                                    *)
THEOREM LedgerSafety == Spec => []SupplyConserved
<1>1. LedgerInv => SupplyConserved
  BY DEF LedgerInv
<1>2. QED
  BY <1>1, LedgerInit, LedgerStep, PTL DEF Spec

-----------------------------------------------------------------------------
(* What a step may not do.                                                 *)

(* The row of a created token survives every step with its terms.          *)
LEMMA TermsStep == LedgerInv /\ [Next]_vars => TermsKept
<1> SUFFICES ASSUME LedgerInv, [Next]_vars PROVE TermsKept
  OBVIOUS
<1>1. TypeOK /\ tokenstats \in [Created -> Stat]
  BY DEF LedgerInv, TypeOK
<1>2. CASE \E issuer \in Accounts, max \in 1 .. MaxAmount, nid \in Nids,
              uri \in Uris, ipowner \in Names : Create(issuer, max, nid, uri, ipowner)
  <2>1. Created \subseteq Created' /\ \A n \in Created : tokenstats'[n] = tokenstats[n]
    BY <1>1, <1>2, CreateEffect
  <2>2. QED
    BY <2>1 DEF TermsKept
<1>3. CASE \E nid \in Nids, amount \in 1 .. MaxAmount :
             Issue(nid, amount) \/ Retire(nid, amount)
  BY <1>1, <1>3 DEF Issue, Retire, TermsKept, Created, Stat
<1>4. CASE \E notary \in Accounts, nid \in Nids : Notarize(notary, nid)
  BY <1>1, <1>4 DEF Notarize, TermsKept, Created, Stat
<1>5. CASE \E nid \in Nids, name \in AdminNames : Setipowner(nid, name)
  BY <1>1, <1>5 DEF Setipowner, TermsKept, Created, Stat
<1>6. CASE \E nid \in Nids, uri \in Uris : Settokenuri(nid, uri)
  BY <1>1, <1>6 DEF Settokenuri, TermsKept, Created, Stat
<1>7. CASE UNCHANGED tokenstats
  BY <1>7 DEF TermsKept, Created
<1>8. QED
  BY <1>2, <1>3, <1>4, <1>5, <1>6, <1>7
     DEF Next, UserNext, AdminNext, Transfer, Setnotary, Addwhitelist,
         Delwhitelist, Setcreator, vars

(* No reachable step changes the cap or the issuer of a token, and no token*)
(* ceases to exist: create with the nid of another is refused for ever.    *)
THEOREM TermsForever == Spec => TermsAreFixed
<1>1. LedgerInv /\ [Next]_vars => [TermsKept]_vars
  BY TermsStep
<1>2. QED
  BY <1>1, LedgerInit, LedgerStep, PTL DEF Spec, TermsAreFixed

(* Only transfer changes the balances of two accounts.                     *)
LEMMA SeparationStep ==
  LedgerInv /\ [Next]_vars => (whitelist # {} => AtMostOneOutsider)
<1> SUFFICES ASSUME LedgerInv, [Next]_vars, whitelist # {} PROVE AtMostOneOutsider
  OBVIOUS
<1>1. TypeOK /\ accounts \in [Accounts -> [Nids -> 0 .. MaxAmount]]
  BY DEF LedgerInv, TypeOK
<1>2. CASE \E nid \in Nids, amount \in 1 .. MaxAmount :
             Issue(nid, amount) \/ Retire(nid, amount)
  <2>1. PICK nid \in Nids, amount \in 1 .. MaxAmount :
               Issue(nid, amount) \/ Retire(nid, amount)
    BY <1>2
  <2>2. \A a \in Accounts \ {tokenstats[nid].issuer} : accounts'[a] = accounts[a]
    BY <1>1, <2>1 DEF Issue, Retire
  <2>3. QED
    BY <2>2 DEF AtMostOneOutsider
<1>3. CASE \E from, to \in Accounts, assets \in AssetVectors : Transfer(from, to, assets)
  <2>1. PICK from \in Accounts, to \in Accounts, assets \in AssetVectors :
               Transfer(from, to, assets)
    BY <1>3
  <2>2. from \in whitelist \/ to \in whitelist
    BY <2>1 DEF Transfer, CanTransfer, WhitelistAllows
  <2>3. \A a \in Accounts \ {from, to} : accounts'[a] = accounts[a]
    BY <1>1, <2>1 DEF Transfer, Moved
  <2>4. QED
    BY <2>2, <2>3 DEF AtMostOneOutsider
<1>4. CASE UNCHANGED accounts
  BY <1>4 DEF AtMostOneOutsider
<1>5. QED
  BY <1>2, <1>3, <1>4
     DEF Next, UserNext, AdminNext, Create, Notarize, Setipowner, Settokenuri,
         Setnotary, Addwhitelist, Delwhitelist, Setcreator, vars

(* While the whitelist is in force, units pass between two accounts only if*)
(* one of them is on it, for any number of accounts and through any action.*)
THEOREM OutsidersStaySeparated == Spec => WhitelistSeparatesOutsiders
<1>1. LedgerInv /\ [Next]_vars => [whitelist # {} => AtMostOneOutsider]_vars
  BY SeparationStep
<1>2. QED
  BY <1>1, LedgerInit, LedgerStep, PTL DEF Spec, WhitelistSeparatesOutsiders

=============================================================================
